---- MODULE Spec2Model ----
(***************************************************************************)
(* RAG-Pilot: the VectorStore (index maintenance and retrieval) over the   *)
(* vectra LocalIndex.  Every async method of VectorStore is a task that    *)
(* advances from one await to the next; the LocalIndex it drives is the    *)
(* record `store`.                                                         *)
(***************************************************************************)
EXTENDS Integers, Sequences, FiniteSets, TLC

\* ------------------------------------------------------------------ bounds
MaxTasks == 2    \* async invocations that may be in flight together
MaxItems == 4    \* items the update buffer may hold when an operation starts
MaxK     == 2    \* largest topK a search is called with
MaxConcurrentItems == 2  \* the same as MaxItems, for operations that may overlap
MaxLines == 4       \* lines of a text handed to chunkDocument
MaxWindow == 3      \* largest chunkSize and overlap chunkDocument is called with
MaxIterations == 5  \* iterations of the chunkDocument loop that are followed
MaxRounds == 3      \* model requests of one chat request that are followed
MaxParts == 2       \* parts of one model response
MaxHistory == 7     \* turns of the conversation history
MaxShort == 2       \* turns of the history when every section is varied

\* ------------------------------------------------------- program constants
ChunkSize    == 100
ChunkOverlap == 20
HistoryWindow == 6     \* context.history.slice(-6)
TruncateAt    == 500   \* responseText.substring(0, 500)

Tasks == 1..MaxTasks

\* --------------------------------------------------------- the file system
\* Paths are sequences of characters, so that String.startsWith is a prefix test.
FileA   == <<"s", "/", "a">>          \* workspace file s/a
FileB   == <<"s", "x", "/", "b">>     \* workspace file sx/b
FileC   == <<"s", "/", "c">>          \* file s/c of the cloned repository
FolderS == <<"s">>                    \* workspace folder s
NoFolder == <<>>                      \* specificFolder undefined
EntireWorkspace == <<"Entire Workspace">>
RepoKey   == "o/r"
OtherRepo == "o/q"
RepoKeys  == {RepoKey, OtherRepo}

\* A text is its sequence of lines; 1 is a line with content, 0 a blank line.
Lines(n) == [i \in 1..n |-> 1]
TextOf(f) ==
    IF f = FileA THEN <<1>>
    ELSE IF f = FileB THEN Lines(ChunkSize - ChunkOverlap + 1)
    ELSE <<1, 0>>

WorkspaceFiles == <<FileA, FileB>>

StartsWith(s, prefix) ==
    /\ Len(prefix) <= Len(s)
    /\ SubSeq(s, 1, Len(prefix)) = prefix

Min(a, b) == IF a < b THEN a ELSE b

RECURSIVE SelectSeqBy(_, _)
\* Array.prototype.filter over a sequence and a set of kept positions' values.
SelectSeqBy(s, keep) ==
    IF s = <<>> THEN <<>>
    ELSE IF Head(s) \in keep THEN <<Head(s)>> \o SelectSeqBy(Tail(s), keep)
    ELSE SelectSeqBy(Tail(s), keep)

\* vscode.workspace.findFiles(searchPattern): every workspace file, or those under
\* the folder of a RelativePattern.
FindFiles(folder) ==
    IF folder = NoFolder THEN WorkspaceFiles
    ELSE SelectSeqBy(WorkspaceFiles,
                     {f \in {FileA, FileB} : StartsWith(f, folder \o <<"/">>)})

\* getFilesInDirectory(repoPath): the indexable files of the clone.
GetFilesInDirectory(repoKey) == <<FileC>>

\* ------------------------------------------------------------ chunkDocument
RECURSIVE ChunkFrom(_, _, _, _)
ChunkFrom(lines, i, chunkSize, overlap) ==
    IF i >= Len(lines) THEN <<>>
    ELSE LET chunk == SubSeq(lines, i + 1, Min(i + chunkSize, Len(lines)))
             rest  == ChunkFrom(lines, i + (chunkSize - overlap), chunkSize, overlap)
         IN IF \E j \in 1..Len(chunk) : chunk[j] # 0
            THEN <<[text |-> chunk, startLine |-> i + 1]>> \o rest
            ELSE rest

chunkDocument(text, chunkSize, overlap) == ChunkFrom(text, 0, chunkSize, overlap)

\* createEmbedding: a deterministic text -> vector function.
createEmbedding(text) == IF Len(text) > 1 THEN 2 ELSE 1

\* The similarity of two vectors (the store's metric).
Similarity(u, v) == IF u = v THEN 2 ELSE 1

\* --------------------------------------------------- vectra's LocalIndex
\* The LocalIndex object behind this.index: index.json on disk (created, disk),
\* the loaded copy _data (loaded, data) and the open update _update (updating,
\* update).  beginUpdate copies _data shallowly, so that _update.items is the
\* very array of _data.items (shared) until _data is replaced.
NewStore ==
    [created |-> FALSE, disk |-> <<>>, loaded |-> FALSE, data |-> <<>>,
     updating |-> FALSE, update |-> <<>>, shared |-> FALSE]

Ok(st)        == [st |-> st, err |-> ""]
Fail(st, msg) == [st |-> st, err |-> msg]

isIndexCreated(st) == st.created

loadIndexData(st) ==
    IF st.loaded THEN Ok(st)
    ELSE IF ~st.created THEN Fail(st, "Index does not exist")
    ELSE Ok([st EXCEPT !.loaded = TRUE, !.data = st.disk, !.shared = FALSE])

\* Mutant: an update may be opened over an open one.
beginUpdate_unguarded(st) ==
    LET l == loadIndexData(st)
    IN IF l.err # "" THEN l
       ELSE Ok([l.st EXCEPT !.updating = TRUE, !.update = l.st.data, !.shared = TRUE])

beginUpdate(st) ==
    IF st.updating THEN Fail(st, "Update already in progress")
    ELSE LET l == loadIndexData(st)
         IN IF l.err # "" THEN l
            ELSE Ok([l.st EXCEPT !.updating = TRUE, !.update = l.st.data,
                                 !.shared = TRUE])

\* Writes _update to index.json and makes it _data.
endUpdate(st) ==
    IF ~st.updating THEN Fail(st, "No update in progress")
    ELSE IF ~st.created THEN Fail(st, "Error saving index")
    ELSE Ok([st EXCEPT !.disk = st.update, !.loaded = TRUE, !.data = st.update,
                       !.updating = FALSE, !.update = <<>>, !.shared = FALSE])

\* Drops _data and removes the index folder; an open _update is left as it is.
deleteIndex(st) ==
    IF ~st.created
    THEN Fail([st EXCEPT !.loaded = FALSE, !.data = <<>>, !.shared = FALSE], "ENOENT")
    ELSE Ok([st EXCEPT !.created = FALSE, !.disk = <<>>, !.loaded = FALSE,
                       !.data = <<>>, !.shared = FALSE])

\* Writes an empty index.json and makes it _data; an open _update is left as it is.
createIndex(st) ==
    IF st.created THEN Fail(st, "Index already exists")
    ELSE Ok([st EXCEPT !.created = TRUE, !.disk = <<>>, !.loaded = TRUE,
                       !.data = <<>>, !.shared = FALSE])

ItemIds(items) == {items[i].id : i \in 1..Len(items)}

\* addItemToUpdate(item, unique = true): the id is the caller's, or a new uuid.
addItemToUpdate(st, item, uuid) ==
    LET id  == IF "id" \in DOMAIN item THEN item.id ELSE uuid
        new == [id |-> id, vector |-> item.vector, metadata |-> item.metadata]
    IN IF id \in ItemIds(st.update)
       THEN Fail(st, "Item with id already exists")
       ELSE Ok([st EXCEPT !.update = Append(st.update, new),
                          !.data = IF st.shared THEN Append(st.update, new)
                                   ELSE st.data])

\* insertItem: into the open update, or inside an update of its own.
insertItem(st, item, uuid) ==
    IF st.updating THEN addItemToUpdate(st, item, uuid)
    ELSE LET b == beginUpdate(st)
         IN IF b.err # "" THEN b
            ELSE LET a == addItemToUpdate(b.st, item, uuid)
                 IN IF a.err # "" THEN a ELSE endUpdate(a.st)

\* listItems: a copy of _data.items.
listItems(st) ==
    LET l == loadIndexData(st)
    IN [st |-> l.st, err |-> l.err, items |-> IF l.err = "" THEN l.st.data ELSE <<>>]

RECURSIVE InsertByScore(_, _)
\* One step of the stable sort by descending score.
InsertByScore(sorted, r) ==
    IF sorted = <<>> THEN <<r>>
    ELSE IF Head(sorted).score >= r.score
         THEN <<Head(sorted)>> \o InsertByScore(Tail(sorted), r)
         ELSE <<r>> \o sorted

RECURSIVE SortByScore(_)
SortByScore(rs) ==
    IF rs = <<>> THEN <<>>
    ELSE InsertByScore(SortByScore(SubSeq(rs, 1, Len(rs) - 1)), rs[Len(rs)])

\* queryItems(vector, topK): every item scored, sorted by descending score, cut to topK.
queryItems(st, vector, topK) ==
    LET l      == loadIndexData(st)
        scored == [i \in 1..Len(l.st.data) |->
                     [item |-> l.st.data[i],
                      score |-> Similarity(vector, l.st.data[i].vector)]]
        sorted == SortByScore(scored)
    IN [st |-> l.st, err |-> l.err,
        results |-> IF l.err = "" THEN SubSeq(sorted, 1, Min(topK, Len(sorted)))
                    ELSE <<>>]

\* ------------------------------------------------------------ VectorStore
VARIABLES
    activated,       \* initialize() has run
    index,           \* this.index !== null
    embedder,        \* this.embedder !== null
    store,           \* the LocalIndex behind this.index
    indexedFolders,  \* this.indexedFolders
    foldersFile,     \* indexed-folders.json: [exists, folders]
    task,            \* the async invocations, each at its current await
    cleared,         \* history: a clearIndex has completed and no removal ran since
    sinceClear,      \* history: the sources ingested since the last clearIndex
    chunker,         \* a chunkDocument call: its arguments and the locals of its loop
    chat,            \* a handleRequest call: its locals, the response stream, its position
    assembly         \* the prompt assembly of a handleRequest call: inputs and payload

vars == <<activated, index, embedder, store, indexedFolders, foldersFile, task,
          cleared, sinceClear, chunker, chat, assembly>>

\* The state of the VectorStore and of its invocations.
storeVars == <<activated, index, embedder, store, indexedFolders, foldersFile, task,
               cleared, sinceClear>>

Idle ==
    [op |-> "none", pc |-> "idle",
     folder |-> NoFolder, files |-> <<>>, repoKey |-> "", query |-> <<>>, topK |-> 0,
     token |-> FALSE,       \* token.isCancellationRequested
     todo |-> <<>>,         \* the files the loop has not reached yet
     keep |-> <<>>,         \* itemsToKeep not yet re-inserted
     results |-> <<>>, err |-> "",
     snapshot |-> {},       \* saveIndexedFolders: Array.from(this.indexedFolders)
     \* history of the invocation
     calls |-> <<>>,        \* the LocalIndex methods it has called, in order
     pre |-> <<>>,          \* the items of the index when its update began
     started |-> 0,         \* files whose processing it started
     failed |-> <<>>,       \* the files whose processing threw: place, chunks inserted
     atCancel |-> <<>>,     \* the update's items when cancellation was signalled
     startedAtCancel |-> 0]

IngestOps == {"indexWorkspace", "indexFiles", "indexGitHubRepo"}
RemoveOps == {"removeRepoFromIndex", "removeFolderFromIndex"}
MutationOps == IngestOps \cup RemoveOps \cup {"clearIndex"}

Free(t) == task[t].pc \in {"idle", "done", "failed"}

\* An invocation takes the lowest free slot; without concurrency it starts only
\* when no other invocation is in flight.
CanCall(t, concurrent) ==
    /\ activated
    /\ Free(t)
    /\ \A u \in Tasks : u < t => ~Free(u)
    /\ concurrent \/ \A u \in Tasks : Free(u)

NewTask(t, op) == [Idle EXCEPT !.op = op]

HeldIds == UNION {ItemIds(task[t].keep) : t \in Tasks}

UsedIds(st) == ItemIds(st.disk) \cup ItemIds(st.data) \cup ItemIds(st.update) \cup HeldIds

\* uuid v4: an id no item has.
FreshId(used) == CHOOSE n \in 1..(Cardinality(used) + 1) :
                    n \notin used /\ \A m \in 1..(n - 1) : m \in used

\* The items an operation may leave behind it.
Capacity(concurrent) == IF concurrent THEN MaxConcurrentItems ELSE MaxItems

StoreSize(st) == IF Len(st.update) > Len(st.disk) THEN Len(st.update) ELSE Len(st.disk)

RECURSIVE CountChunks(_)
CountChunks(files) ==
    IF files = <<>> THEN 0
    ELSE Len(chunkDocument(TextOf(Head(files)), ChunkSize, ChunkOverlap))
         + CountChunks(Tail(files))

\* initialize(): the embedding pipeline loads or throws; then the index is opened
\* or created and the registry file is read.
loadIndexedFolders == IF foldersFile.exists THEN foldersFile.folders ELSE {}

saveIndexedFolders(folders) == [exists |-> TRUE, folders |-> folders]

initialize ==
    /\ ~activated
    /\ activated' = TRUE
    /\ \E pipelineOk \in BOOLEAN :
         IF pipelineOk
         THEN LET opened == IF isIndexCreated(store) THEN endUpdate(beginUpdate(store).st)
                            ELSE createIndex(store)
              IN /\ embedder' = TRUE
                 /\ index' = TRUE
                 /\ store' = opened.st
                 /\ indexedFolders' = loadIndexedFolders
         ELSE UNCHANGED <<embedder, index, store, indexedFolders>>
    /\ UNCHANGED <<chunker, chat, assembly, foldersFile, task, cleared, sinceClear>>

\* Where a rejected promise leaves the invocation: nothing is cleaned up.
Throw(t, st, msg) ==
    /\ store' = st
    /\ task' = [task EXCEPT ![t].pc = "failed", ![t].err = msg]

\* ----------------------------------------------------------------- ingestion
\* Mutant: every item is given the repository key.
Metadata_repoOnAll(op, repoKey, file, chunk) ==
    [file |-> file, line |-> chunk.startLine,
     source |-> IF op = "indexGitHubRepo" THEN "github" ELSE "workspace",
     repo |-> repoKey, text |-> chunk.text]

Metadata(op, repoKey, file, chunk) ==
    IF op = "indexGitHubRepo"
    THEN [file |-> file, line |-> chunk.startLine, source |-> "github",
          repo |-> repoKey, text |-> chunk.text]
    ELSE [file |-> file, line |-> chunk.startLine, source |-> "workspace",
          text |-> chunk.text]

RECURSIVE InsertChunks_dedup(_, _, _, _, _)
\* Mutant: a chunk the index already holds is not inserted again.
InsertChunks_dedup(st, chunks, op, repoKey, file) ==
    IF chunks = <<>> THEN [st |-> st, err |-> "", n |-> 0]
    ELSE LET metadata == Metadata(op, repoKey, file, Head(chunks))
             item == [vector |-> createEmbedding(Head(chunks).text), metadata |-> metadata]
             held == \E i \in 1..Len(st.update) : st.update[i].metadata = metadata
             ins  == IF held THEN Ok(st) ELSE insertItem(st, item, FreshId(UsedIds(st)))
             rest == InsertChunks_dedup(ins.st, Tail(chunks), op, repoKey, file)
         IN [st |-> rest.st, err |-> rest.err, n |-> rest.n + (IF held THEN 0 ELSE 1)]

RECURSIVE InsertChunks(_, _, _, _, _)
\* The chunk loop of one file: an embedding and an insertItem per chunk, until one throws.
InsertChunks(st, chunks, op, repoKey, file) ==
    IF chunks = <<>> THEN [st |-> st, err |-> "", n |-> 0]
    ELSE LET item == [vector   |-> createEmbedding(Head(chunks).text),
                      metadata |-> Metadata(op, repoKey, file, Head(chunks))]
             ins  == insertItem(st, item, FreshId(UsedIds(st)))
         IN IF ins.err # "" THEN [st |-> ins.st, err |-> ins.err, n |-> 1]
            ELSE LET rest == InsertChunks(ins.st, Tail(chunks), op, repoKey, file)
                 IN [st |-> rest.st, err |-> rest.err, n |-> rest.n + 1]

Repeat(x, n) == [i \in 1..n |-> x]

\* The files an ingestion walks: findFiles, the caller's list, or the clone's files.
FilesOf(r) ==
    IF r.op = "indexWorkspace" THEN FindFiles(r.folder)
    ELSE IF r.op = "indexFiles" THEN r.files
    ELSE GetFilesInDirectory(r.repoKey)

\* The label indexWorkspace records.
FolderLabel(folder) == IF folder = NoFolder THEN EntireWorkspace ELSE folder

NotInitialized == ~index \/ ~embedder

CallIngest(t, concurrent, r) ==
    /\ CanCall(t, concurrent)
    /\ StoreSize(store) + CountChunks(FilesOf(r)) <= Capacity(concurrent)
    /\ task' = [task EXCEPT ![t] =
                  IF NotInitialized
                  THEN [r EXCEPT !.pc = "failed", !.err = "Vector store not initialized"]
                  ELSE [r EXCEPT !.pc = "beginUpdate"]]
    /\ UNCHANGED <<chunker, chat, assembly, activated, index, embedder, store, indexedFolders, foldersFile,
                   cleared, sinceClear>>

indexWorkspace(t, concurrent) ==
    \E folder \in {NoFolder, FolderS} :
       CallIngest(t, concurrent, [NewTask(t, "indexWorkspace") EXCEPT !.folder = folder])

indexFiles(t, concurrent) ==
    \E files \in {<<FileA>>, <<FileB, FileA>>} :
       CallIngest(t, concurrent, [NewTask(t, "indexFiles") EXCEPT !.files = files])

indexGitHubRepo(t, concurrent) ==
    \E repoKey \in {RepoKey} :
       CallIngest(t, concurrent, [NewTask(t, "indexGitHubRepo") EXCEPT !.repoKey = repoKey])

\* The user cancels the progress notification of a running ingestion.
Cancel(t) ==
    /\ task[t].op \in IngestOps
    /\ task[t].pc \in {"beginUpdate", "loop"}
    /\ ~task[t].token
    /\ task' = [task EXCEPT ![t].token = TRUE,
                            ![t].atCancel = IF task[t].pc = "loop" THEN store.update
                                            ELSE <<>>,
                            ![t].startedAtCancel = task[t].started]
    /\ UNCHANGED <<chunker, chat, assembly, activated, index, embedder, store, indexedFolders, foldersFile,
                   cleared, sinceClear>>

\* await this.index.beginUpdate(), then the file discovery.
IngestBegin(t) ==
    /\ task[t].op \in IngestOps
    /\ task[t].pc = "beginUpdate"
    /\ LET b == beginUpdate(store)
       IN IF b.err # "" THEN Throw(t, b.st, b.err)
          ELSE /\ store' = b.st
               /\ task' = [task EXCEPT ![t].pc = "loop",
                                       ![t].calls = <<"beginUpdate">>,
                                       ![t].pre = b.st.update,
                                       ![t].todo = FilesOf(task[t])]
    /\ UNCHANGED <<chunker, chat, assembly, activated, index, embedder, indexedFolders, foldersFile, cleared,
                   sinceClear>>

\* Mutant: the token is never looked at.
BreaksLoop_never(r) == FALSE

\* The between-files check: if (token.isCancellationRequested) break.
BreaksLoop(r) == r.token

\* Mutant: cancellation returns from the method instead of breaking the loop.
AfterLoop_returns(r) == IF r.token THEN "done" ELSE "endUpdate"

\* Leaving the loop, by its end or by the break, falls through to endUpdate.
AfterLoop(r) == "endUpdate"

\* One turn of the file loop: the check, then every chunk of the file.
IngestFile(t) ==
    /\ task[t].op \in IngestOps
    /\ task[t].pc = "loop"
    /\ LET r == task[t]
       IN IF r.todo = <<>> \/ BreaksLoop(r)
          THEN /\ task' = [task EXCEPT ![t].pc = AfterLoop(r)]
               /\ UNCHANGED <<store, indexedFolders, sinceClear>>
          ELSE LET file   == Head(r.todo)
                   chunks == chunkDocument(TextOf(file), ChunkSize, ChunkOverlap)
                   ins    == InsertChunks(store, chunks, r.op, r.repoKey, file)
                   added  == r.op = "indexFiles" /\ ins.err = ""
               IN /\ store' = ins.st
                  /\ task' = [task EXCEPT ![t].todo = Tail(r.todo),
                                          ![t].started = r.started + 1,
                                          ![t].calls = r.calls \o Repeat("insertItem", ins.n)]
                  /\ indexedFolders' = IF added THEN indexedFolders \cup {file}
                                       ELSE indexedFolders
                  /\ sinceClear' = IF added /\ cleared THEN sinceClear \cup {file}
                                   ELSE sinceClear
    /\ UNCHANGED <<chunker, chat, assembly, activated, index, embedder, foldersFile, cleared>>

\* What an ingestion adds to the history of ingested sources when its update ends.
SourceOf(r) ==
    IF r.op = "indexWorkspace" THEN {FolderLabel(r.folder)}
    ELSE IF r.op = "indexGitHubRepo" THEN {<<r.repoKey>>}
    ELSE {}

\* await this.index.endUpdate()
IngestEnd(t) ==
    /\ task[t].op \in IngestOps
    /\ task[t].pc = "endUpdate"
    /\ LET e == endUpdate(store)
       IN IF e.err # "" THEN Throw(t, e.st, e.err) /\ UNCHANGED sinceClear
          ELSE /\ store' = e.st
               /\ task' = [task EXCEPT ![t].calls = Append(task[t].calls, "endUpdate"),
                                       ![t].pc = IF task[t].op = "indexGitHubRepo"
                                                 THEN "done" ELSE "registry"]
               /\ sinceClear' = IF cleared THEN sinceClear \cup SourceOf(task[t])
                                ELSE sinceClear
    /\ UNCHANGED <<chunker, chat, assembly, activated, index, embedder, indexedFolders, foldersFile, cleared>>

\* Mutant: indexWorkspace records no label.
TrackedLabels_none(r) == {}

\* The labels indexWorkspace adds to this.indexedFolders after its update.
TrackedLabels(r) == IF r.op = "indexWorkspace" THEN {FolderLabel(r.folder)} ELSE {}

\* this.indexedFolders.add(folderPath); await this.saveIndexedFolders()
IngestRegistry(t) ==
    /\ task[t].op \in IngestOps
    /\ task[t].pc = "registry"
    /\ indexedFolders' = indexedFolders \cup TrackedLabels(task[t])
    /\ foldersFile' = saveIndexedFolders(indexedFolders')
    /\ task' = [task EXCEPT ![t].pc = "done"]
    /\ UNCHANGED <<chunker, chat, assembly, activated, index, embedder, store, cleared, sinceClear>>

\* ------------------------------------------------------------------- removal
\* The filter of removeRepoFromIndex: keep what is not of this repository.
KeepForRepo(metadata, repoKey) ==
    metadata.source # "github" \/ metadata.repo # repoKey

\* The filter of removeFolderFromIndex: keep what has no file or another prefix.
KeepForFolder(metadata, folderPath) ==
    metadata.file = <<>> \/ ~StartsWith(metadata.file, folderPath)

Keeps(r, metadata) ==
    IF r.op = "removeRepoFromIndex" THEN KeepForRepo(metadata, r.repoKey)
    ELSE KeepForFolder(metadata, r.folder)

RECURSIVE ItemsToKeep(_, _)
ItemsToKeep(r, items) ==
    IF items = <<>> THEN <<>>
    ELSE IF Keeps(r, Head(items).metadata)
         THEN <<Head(items)>> \o ItemsToKeep(r, Tail(items))
         ELSE ItemsToKeep(r, Tail(items))

\* Mutant: the kept item is handed back whole, its id with it.
Reinserted_withId(item) == item

\* What a rebuild hands to insertItem for a kept item: vector and metadata, no id.
Reinserted(item) == [vector |-> item.vector, metadata |-> item.metadata]

\* Mutant: the index is destroyed before its items are listed.
RemoveOrder_destroyFirst ==
    <<"beginUpdate", "deleteIndex", "listItems", "createIndex", "insertItem", "endUpdate">>

\* The awaits of a removal, in the order of the method's statements.
RemoveOrder ==
    <<"beginUpdate", "listItems", "deleteIndex", "createIndex", "insertItem", "endUpdate">>

\* The awaits of clearIndex.
ClearOrder == <<"beginUpdate", "deleteIndex", "createIndex", "endUpdate">>

Following(order, pc) ==
    LET i == CHOOSE j \in 1..Len(order) : order[j] = pc
    IN IF i < Len(order) THEN order[i + 1] ELSE "registry"

CallRebuild(t, concurrent, r) ==
    /\ CanCall(t, concurrent)
    /\ 2 * StoreSize(store) <= Capacity(concurrent)
    /\ task' = [task EXCEPT ![t] =
                  IF ~index THEN [r EXCEPT !.pc = "done"]
                  ELSE [r EXCEPT !.pc = "beginUpdate"]]
    /\ cleared' = IF index /\ r.op \in RemoveOps THEN FALSE ELSE cleared
    /\ sinceClear' = IF cleared' THEN sinceClear ELSE {}
    /\ UNCHANGED <<chunker, chat, assembly, activated, index, embedder, store, indexedFolders, foldersFile>>

removeRepoFromIndex(t, concurrent) ==
    \E repoKey \in RepoKeys :
       CallRebuild(t, concurrent,
                   [NewTask(t, "removeRepoFromIndex") EXCEPT !.repoKey = repoKey])

removeFolderFromIndex(t, concurrent) ==
    \E folderPath \in {FolderS, FileA, EntireWorkspace} :
       CallRebuild(t, concurrent,
                   [NewTask(t, "removeFolderFromIndex") EXCEPT !.folder = folderPath])

clearIndex(t, concurrent) ==
    CallRebuild(t, concurrent, NewTask(t, "clearIndex"))

OrderOf(r) == IF r.op = "clearIndex" THEN ClearOrder ELSE RemoveOrder

Rebuilding(t, pc) ==
    /\ task[t].op \in RemoveOps \cup {"clearIndex"}
    /\ task[t].pc = pc

\* One await of a rebuild completed: on to the next.
Advance(t, st, r) ==
    /\ store' = st
    /\ task' = [task EXCEPT ![t] =
                  [r EXCEPT !.calls = Append(r.calls, r.pc),
                            !.pc = Following(OrderOf(r), r.pc)]]

\* await this.index.beginUpdate()
RebuildBegin(t) ==
    /\ Rebuilding(t, "beginUpdate")
    /\ LET b == beginUpdate(store)
       IN IF b.err # "" THEN Throw(t, b.st, b.err)
          ELSE Advance(t, b.st, [task[t] EXCEPT !.pre = b.st.update])
    /\ UNCHANGED <<chunker, chat, assembly, activated, index, embedder, indexedFolders, foldersFile, cleared,
                   sinceClear>>

\* const allItems = await this.index.listItems(); const itemsToKeep = allItems.filter(..)
RemoveList(t) ==
    /\ Rebuilding(t, "listItems")
    /\ LET l == listItems(store)
       IN IF l.err # "" THEN Throw(t, l.st, l.err)
          ELSE LET keep == ItemsToKeep(task[t], l.items)
               IN Advance(t, l.st, [task[t] EXCEPT !.keep = keep])
    /\ UNCHANGED <<chunker, chat, assembly, activated, index, embedder, indexedFolders, foldersFile, cleared,
                   sinceClear>>

\* await this.index.deleteIndex()
RebuildDelete(t) ==
    /\ Rebuilding(t, "deleteIndex")
    /\ LET d == deleteIndex(store)
       IN IF d.err # "" THEN Throw(t, d.st, d.err) ELSE Advance(t, d.st, task[t])
    /\ UNCHANGED <<chunker, chat, assembly, activated, index, embedder, indexedFolders, foldersFile, cleared,
                   sinceClear>>

\* await this.index.createIndex()
RebuildCreate(t) ==
    /\ Rebuilding(t, "createIndex")
    /\ LET c == createIndex(store)
       IN IF c.err # "" THEN Throw(t, c.st, c.err) ELSE Advance(t, c.st, task[t])
    /\ UNCHANGED <<chunker, chat, assembly, activated, index, embedder, indexedFolders, foldersFile, cleared,
                   sinceClear>>

\* for (const item of itemsToKeep) await this.index.insertItem({vector, metadata})
RemoveInsert(t) ==
    /\ Rebuilding(t, "insertItem")
    /\ LET r == task[t]
       IN IF r.keep = <<>>
          THEN /\ task' = [task EXCEPT ![t].pc = Following(OrderOf(r), r.pc)]
               /\ UNCHANGED store
          ELSE LET ins == insertItem(store, Reinserted(Head(r.keep)),
                                     FreshId(UsedIds(store)))
               IN IF ins.err # "" THEN Throw(t, ins.st, ins.err)
                  ELSE /\ store' = ins.st
                       /\ task' = [task EXCEPT ![t].keep = Tail(r.keep),
                                               ![t].calls = Append(r.calls, "insertItem")]
    /\ UNCHANGED <<chunker, chat, assembly, activated, index, embedder, indexedFolders, foldersFile, cleared,
                   sinceClear>>

\* await this.index.endUpdate()
RebuildEnd(t) ==
    /\ Rebuilding(t, "endUpdate")
    /\ LET e == endUpdate(store)
       IN IF e.err # "" THEN Throw(t, e.st, e.err)
          ELSE /\ store' = e.st
               /\ task' = [task EXCEPT ![t].calls = Append(task[t].calls, "endUpdate"),
                                       ![t].pc = IF task[t].op = "removeRepoFromIndex"
                                                 THEN "done" ELSE "registry"]
    /\ UNCHANGED <<chunker, chat, assembly, activated, index, embedder, indexedFolders, foldersFile, cleared,
                   sinceClear>>

\* The registry after a rebuild: delete(folderPath), or clear().
RegistryAfter(r, folders) ==
    IF r.op = "clearIndex" THEN {} ELSE folders \ {r.folder}

\* this.indexedFolders.delete(folderPath) / clear(); await this.saveIndexedFolders()
RebuildRegistry(t) ==
    /\ Rebuilding(t, "registry")
    /\ indexedFolders' = RegistryAfter(task[t], indexedFolders)
    /\ foldersFile' = saveIndexedFolders(indexedFolders')
    /\ task' = [task EXCEPT ![t].pc = "done"]
    /\ cleared' = IF task[t].op = "clearIndex" THEN TRUE ELSE cleared
    /\ sinceClear' = IF task[t].op = "clearIndex" THEN {} ELSE sinceClear
    /\ UNCHANGED <<chunker, chat, assembly, activated, index, embedder, store>>

\* -------------------------------------------------------------------- search
Queries == {<<1>>, <<1, 1>>}

\* Mutant: the score is turned into a distance.
RetrievedDoc_rescaled(result) ==
    [text |-> result.item.metadata.text, metadata |-> result.item.metadata,
     score |-> 2 - result.score]

\* results.map(result => ({text: metadata.text || '', metadata, score: result.score}))
RetrievedDoc(result) ==
    LET metadata == result.item.metadata
    IN [text |-> IF "text" \in DOMAIN metadata THEN metadata.text ELSE <<>>,
        metadata |-> metadata,
        score |-> result.score]

search(t, concurrent) ==
    /\ CanCall(t, concurrent)
    /\ \E query \in Queries, topK \in 1..MaxK :
         LET r == [NewTask(t, "search") EXCEPT !.query = query, !.topK = topK]
         IN task' = [task EXCEPT ![t] =
                       IF NotInitialized THEN [r EXCEPT !.pc = "done"]
                       ELSE [r EXCEPT !.pc = "queryItems"]]
    /\ UNCHANGED <<chunker, chat, assembly, activated, index, embedder, store, indexedFolders, foldersFile,
                   cleared, sinceClear>>

\* const results = await this.index.queryItems(queryEmbedding, topK); return results.map(..)
SearchQuery(t) ==
    /\ task[t].op = "search"
    /\ task[t].pc = "queryItems"
    /\ LET q == queryItems(store, createEmbedding(task[t].query), task[t].topK)
       IN IF q.err # "" THEN Throw(t, q.st, q.err)
          ELSE /\ store' = q.st
               /\ task' = [task EXCEPT
                    ![t].pc = "done",
                    ![t].calls = <<"queryItems">>,
                    ![t].pre = q.st.data,
                    ![t].results = [i \in 1..Len(q.results) |-> RetrievedDoc(q.results[i])]]
    /\ UNCHANGED <<chunker, chat, assembly, activated, index, embedder, indexedFolders, foldersFile, cleared,
                   sinceClear>>

\* ------------------------------------- saveIndexedFolders, await by await
\* The registry is changed and saveIndexedFolders is entered: it runs up to
\* await fs.mkdir(parentDir, { recursive: true }).
RegistryChange(t) ==
    /\ task[t].op \in MutationOps
    /\ task[t].pc = "registry"
    /\ indexedFolders' = IF task[t].op \in IngestOps
                         THEN indexedFolders \cup TrackedLabels(task[t])
                         ELSE RegistryAfter(task[t], indexedFolders)
    /\ task' = [task EXCEPT ![t].pc = "mkdir"]
    /\ cleared' = IF task[t].op = "clearIndex" THEN TRUE ELSE cleared
    /\ sinceClear' = IF task[t].op = "clearIndex" THEN {} ELSE sinceClear
    /\ UNCHANGED <<chunker, chat, assembly, activated, index, embedder, store, foldersFile>>

\* const folders = Array.from(this.indexedFolders); then await fs.writeFile(...)
SaveSnapshot(t) ==
    /\ task[t].pc = "mkdir"
    /\ task' = [task EXCEPT ![t].pc = "writeFile", ![t].snapshot = indexedFolders]
    /\ UNCHANGED <<chunker, chat, assembly, activated, index, embedder, store, indexedFolders,
                   foldersFile, cleared, sinceClear>>

\* The write lands on indexed-folders.json and the method returns.
SaveWrite(t) ==
    /\ task[t].pc = "writeFile"
    /\ foldersFile' = saveIndexedFolders(task[t].snapshot)
    /\ task' = [task EXCEPT ![t].pc = "done"]
    /\ UNCHANGED <<chunker, chat, assembly, activated, index, embedder, store, indexedFolders,
                   cleared, sinceClear>>

\* ------------------------------------------------- failures of the environment
\* Mutant: the failure of one file is not caught.
AfterFileFailure_throws(r) == "failed"

\* catch (error) { console.error(`Failed to index file ...`, error); }: the
\* loop goes on with the next file.
AfterFileFailure(r) == "loop"

\* One turn of the file loop in which the file cannot be read (no chunk is
\* inserted) or createEmbedding throws at a chunk (the chunks before it are
\* inserted): the rest of the try block is skipped.
IngestFileFails(t) ==
    /\ task[t].op \in IngestOps
    /\ task[t].pc = "loop"
    /\ task[t].todo # <<>>
    /\ ~BreaksLoop(task[t])
    /\ LET r      == task[t]
           file   == Head(r.todo)
           chunks == chunkDocument(TextOf(file), ChunkSize, ChunkOverlap)
       IN \E k \in 0..(Len(chunks) - 1) :
            LET ins == InsertChunks(store, SubSeq(chunks, 1, k), r.op, r.repoKey, file)
            IN /\ store' = ins.st
               /\ task' = [task EXCEPT
                     ![t].todo = Tail(r.todo),
                     ![t].started = r.started + 1,
                     ![t].calls = r.calls \o Repeat("insertItem", ins.n),
                     ![t].failed = Append(r.failed, [at |-> r.started + 1,
                                                     inserted |-> k]),
                     ![t].pc = AfterFileFailure(r),
                     ![t].err = IF AfterFileFailure(r) = "failed"
                                THEN "Failed to index file" ELSE r.err]
    /\ UNCHANGED <<chunker, chat, assembly, activated, index, embedder, indexedFolders,
                   foldersFile, cleared, sinceClear>>

\* beginUpdate succeeds and then findFiles or getFilesInDirectory rejects: the
\* method throws from there.
DiscoveryFails(t) ==
    /\ task[t].op \in {"indexWorkspace", "indexGitHubRepo"}
    /\ task[t].pc = "beginUpdate"
    /\ LET b == beginUpdate(store)
       IN /\ b.err = ""
          /\ store' = b.st
          /\ task' = [task EXCEPT ![t].pc = "failed",
                                  ![t].err = "ENOENT",
                                  ![t].calls = <<"beginUpdate">>,
                                  ![t].pre = b.st.update]
    /\ UNCHANGED <<chunker, chat, assembly, activated, index, embedder, indexedFolders,
                   foldersFile, cleared, sinceClear>>

\* What a LocalIndex method leaves when the file system fails under it:
\* deleteIndex has dropped _data, createIndex has deleted what it made,
\* endUpdate has written nothing and keeps the update open.
FailedCall(st, call) ==
    IF call = "deleteIndex"
    THEN Fail([st EXCEPT !.loaded = FALSE, !.data = <<>>, !.shared = FALSE], "EBUSY")
    ELSE IF call = "createIndex"
    THEN Fail([st EXCEPT !.created = FALSE, !.disk = <<>>, !.loaded = FALSE,
                         !.data = <<>>, !.shared = FALSE], "Error creating index")
    ELSE Fail(st, "Error saving index")

\* await this.index.deleteIndex() / createIndex() / endUpdate() rejects: nothing
\* catches it, the method throws.
StoreCallFails(t) ==
    /\ task[t].op \in MutationOps
    /\ task[t].pc \in {"deleteIndex", "createIndex", "endUpdate"}
    /\ LET f == FailedCall(store, task[t].pc)
       IN /\ store' = f.st
          /\ task' = [task EXCEPT ![t].pc = "failed", ![t].err = f.err,
                                  ![t].calls = Append(task[t].calls, task[t].pc)]
    /\ UNCHANGED <<chunker, chat, assembly, activated, index, embedder, indexedFolders,
                   foldersFile, cleared, sinceClear>>

\* ------------------------------------------------- chunkDocument, step by step
\* One call of chunkDocument(text, chunkSize, overlap) with its loop followed
\* iteration by iteration, for any arguments.  A line is 0 (blank) or has content.
LineValues == {0, 1, 2}

Texts == UNION {[1..n -> LineValues] : n \in 1..MaxLines}

NoChunkerCall ==
    [pc |-> "idle", lines |-> <<>>, chunkSize |-> 0, overlap |-> 0,
     i |-> 0, chunks |-> <<>>, iterations |-> 0]

Max(a, b) == IF a > b THEN a ELSE b

\* Array.prototype.slice(start, end): a negative bound counts from the end.
Slice(lines, start, end) ==
    LET len  == Len(lines)
        from == IF start < 0 THEN Max(len + start, 0) ELSE Min(start, len)
        to   == IF end < 0 THEN Max(len + end, 0) ELSE Min(end, len)
    IN SubSeq(lines, from + 1, to)

\* chunk.trim().length > 0
NotBlank(chunk) == \E j \in 1..Len(chunk) : chunk[j] # 0

\* Mutant: the windows do not overlap.
NextStart_noOverlap(i, chunkSize, overlap) == i + chunkSize

\* i += chunkSize - overlap
NextStart(i, chunkSize, overlap) == i + (chunkSize - overlap)

\* const lines = text.split('\n'); const chunks = []; let i = 0
chunkDocumentCall ==
    /\ chunker.pc = "idle"
    /\ \E text \in Texts, chunkSize \in 1..MaxWindow, overlap \in 0..MaxWindow :
         chunker' = [NoChunkerCall EXCEPT !.pc = "loop", !.lines = text,
                                          !.chunkSize = chunkSize, !.overlap = overlap]
    /\ UNCHANGED <<storeVars, chat, assembly>>

\* One iteration of the for loop, or its exit and the return of chunks.
ChunkLoop ==
    /\ chunker.pc = "loop"
    /\ IF chunker.i < Len(chunker.lines)
       THEN /\ chunker.iterations < MaxIterations
            /\ LET chunk == Slice(chunker.lines, chunker.i, chunker.i + chunker.chunkSize)
               IN chunker' = [chunker EXCEPT
                    !.chunks = IF NotBlank(chunk)
                               THEN Append(@, [text |-> chunk, startLine |-> chunker.i + 1])
                               ELSE @,
                    !.i = NextStart(@, chunker.chunkSize, chunker.overlap),
                    !.iterations = @ + 1]
       ELSE chunker' = [chunker EXCEPT !.pc = "returned"]
    /\ UNCHANGED <<storeVars, chat, assembly>>

\* The caller takes the chunks; the next call may come.
ChunkReturn ==
    /\ chunker.pc = "returned"
    /\ chunker' = NoChunkerCall
    /\ UNCHANGED <<storeVars, chat, assembly>>

\* ------------------------------------------- RagChatParticipant.handleRequest
\* One chat request: retrieval, then the tool-calling loop with the model, then
\* the list of sources.  A part of a model response is a text or a tool call,
\* named by its round and its place in the response.
PartKinds == {"text", "call"}

\* The responses the model may stream: up to MaxParts parts of either kind.
Streams == UNION {[1..n -> PartKinds] : n \in 0..MaxParts}

PartsOf(stream, round) ==
    [p \in 1..Len(stream) |-> [kind |-> stream[p], id |-> <<round, p>>]]

Wrote(kind, id) == [kind |-> kind, id |-> id]

NoRequest ==
    [pc |-> "idle",
     token |-> FALSE,            \* token.isCancellationRequested
     relevantDocs |-> 0,         \* relevantDocs.length
     userProvidedFiles |-> 0,    \* userProvidedFiles.length
     messages |-> <<>>,
     continueLoop |-> TRUE,
     totalToolCalls |-> 0,
     pending |-> <<>>,           \* the parts chatResponse.stream has yet to yield
     assistantParts |-> <<>>,
     hasToolCalls |-> FALSE,
     next |-> 1,                 \* the place of the tool loop in assistantParts
     toolResults |-> <<>>,
     sink |-> <<>>,              \* what was written to the response stream
     outcome |-> "",             \* how the request ended
     \* history of the request
     requests |-> 0,             \* model.sendRequest calls
     sent |-> <<>>,              \* the messages each sendRequest was given
     emitted |-> <<>>,           \* the response of each round
     invocations |-> <<>>,       \* invokeTool calls: start, then return or fail
     atCancel |-> [round |-> 0, pc |-> "", pending |-> 0],
     atObserve |-> [requests |-> 0, invocations |-> 0, sink |-> 0],
     atError |-> [requests |-> 0, invocations |-> 0]]

\* this.vectorStore.hasIndex()
hasIndex == index /\ isIndexCreated(store)

\* Everything before the loop: retrieval, the attached files, the model, the
\* first message.
handleRequest ==
    /\ activated
    /\ chat.pc = "idle"
    /\ \E query \in Queries, files \in 0..1, modelAvailable \in BOOLEAN :
         LET q    == IF NotInitialized THEN [st |-> store, err |-> "", results |-> <<>>]
                     ELSE queryItems(store, createEmbedding(query), 3)
             docs == Len(q.results)
             r    == [NoRequest EXCEPT !.relevantDocs = docs, !.userProvidedFiles = files]
             searching == <<Wrote("progress", <<>>)>>
             found == searching \o (IF docs = 0 THEN <<Wrote("notice", <<>>)>> ELSE <<>>)
         IN IF ~hasIndex
            THEN /\ chat' = [r EXCEPT !.pc = "returned", !.outcome = "NoIndex",
                                      !.relevantDocs = 0, !.userProvidedFiles = 0,
                                      !.sink = <<Wrote("notice", <<>>)>>]
                 /\ UNCHANGED store
            ELSE IF q.err # ""
            THEN /\ chat' = [r EXCEPT !.pc = "returned", !.outcome = "Error",
                                      !.userProvidedFiles = 0,
                                      !.sink = searching \o <<Wrote("error", <<>>)>>]
                 /\ store' = q.st
            ELSE IF ~modelAvailable
            THEN /\ chat' = [r EXCEPT !.pc = "returned", !.outcome = "NoModel",
                                      !.sink = found \o <<Wrote("error", <<>>)>>]
                 /\ store' = q.st
            ELSE /\ chat' = [r EXCEPT !.pc = "top",
                                      !.messages = <<[role |-> "user", parts |-> <<>>]>>,
                                      !.sink = found \o <<Wrote("progress", <<>>)>>]
                 /\ store' = q.st
    /\ UNCHANGED <<activated, index, embedder, indexedFolders, foldersFile, task,
                   cleared, sinceClear, chunker, assembly>>

\* The user stops the response.
CancelRequest ==
    /\ chat.pc \in {"top", "streaming", "tools", "invoking"}
    /\ ~chat.token
    /\ chat' = [chat EXCEPT !.token = TRUE,
                            !.atCancel = [round |-> chat.requests, pc |-> chat.pc,
                                          pending |-> Len(chat.pending)]]
    /\ UNCHANGED <<storeVars, chunker, assembly>>

\* Mutant: the loop guard does not read the token.
LoopContinues_ignoresToken(continueLoop, token) == continueLoop

\* while (continueLoop && !token.isCancellationRequested)
LoopContinues(continueLoop, token) == continueLoop /\ ~token

\* Mutant: the token is read at every part and before every invocation.
PollsInRound_token(token) == token

\* Inside a round nothing reads the token.
PollsInRound(token) == FALSE

\* Mutant: the assistant message is never appended.
AppendsAssistant_never(hasToolCalls) == FALSE

\* Mutant: the assistant message is appended after every round.
AppendsAssistant_always(hasToolCalls) == TRUE

\* if (hasToolCalls) messages.push(Assistant(assistantParts))
AppendsAssistant(hasToolCalls) == hasToolCalls

\* Mutant: a result is recorded twice.
AddResult_twice(toolResults, result) == toolResults \o <<result, result>>

\* Mutant: a result is put in front of the earlier ones.
AddResult_prepend(toolResults, result) == <<result>> \o toolResults

\* toolResults.push(new LanguageModelToolResultPart(part.callId, toolResult.content))
AddResult(toolResults, result) == Append(toolResults, result)

\* Mutant: a failed invocation ends the tool loop and the request loop.
AfterInvocation_abortsOnFailure(ok) == IF ok THEN "tools" ELSE "sources"

\* try { ... } catch (error) { ... } inside the for loop: the loop goes on.
AfterInvocation(ok) == "tools"

\* Mutant: the results message is pushed even when it is empty.
FeedsBack_always(toolResults) == TRUE

\* if (toolResults.length > 0)
FeedsBack(toolResults) == toolResults # <<>>

\* Mutant: after a model error the loop is entered again.
AfterModelError_retries(err) == "top"

\* catch (err) { stream.markdown(...); return { metadata: { command: '' } }; }
AfterModelError(err) == "returned"

\* The next tool call of for (const part of assistantParts), or 0 at the end.
NextCall(parts, from) ==
    LET calls == {p \in from..Len(parts) : parts[p].kind = "call"}
    IN IF calls = {} THEN 0 ELSE CHOOSE p \in calls : \A o \in calls : p <= o

\* Mutant: only the newest message is sent.
SentMessages_newest(messages) == <<messages[Len(messages)]>>

\* model.sendRequest(messages, ...)
SentMessages(messages) == messages

\* The loop guard; then model.sendRequest and the response the model chooses.
LoopTop ==
    /\ chat.pc = "top"
    /\ IF LoopContinues(chat.continueLoop, chat.token)
       THEN /\ chat.requests < MaxRounds
            /\ \E stream \in Streams :
                 chat' = [chat EXCEPT
                    !.pc = "streaming",
                    !.requests = @ + 1,
                    !.sent = Append(@, SentMessages(chat.messages)),
                    !.emitted = Append(@, PartsOf(stream, chat.requests + 1)),
                    !.pending = PartsOf(stream, chat.requests + 1),
                    !.assistantParts = <<>>,
                    !.hasToolCalls = FALSE]
       ELSE chat' = [chat EXCEPT
               !.pc = "sources",
               !.outcome = IF chat.continueLoop THEN "Cancelled" ELSE "Done",
               !.atObserve = IF chat.continueLoop
                             THEN [requests |-> chat.requests,
                                   invocations |-> Len(chat.invocations),
                                   sink |-> Len(chat.sink)]
                             ELSE @]
    /\ UNCHANGED <<storeVars, chunker, assembly>>

\* for await (const part of chatResponse.stream): one part.
StreamPart ==
    /\ chat.pc = "streaming"
    /\ chat.pending # <<>>
    /\ LET part == Head(chat.pending)
       IN IF PollsInRound(chat.token)
          THEN chat' = [chat EXCEPT !.pc = "top", !.pending = <<>>]
          ELSE IF part.kind = "text"
          THEN chat' = [chat EXCEPT !.pending = Tail(@),
                                    !.assistantParts = Append(@, part),
                                    !.sink = Append(@, Wrote("text", part.id))]
          ELSE chat' = [chat EXCEPT !.pending = Tail(@),
                                    !.assistantParts = Append(@, part),
                                    !.hasToolCalls = TRUE,
                                    !.totalToolCalls = @ + 1,
                                    !.sink = Append(@, Wrote("progress", part.id))]
    /\ UNCHANGED <<storeVars, chunker, assembly>>

\* The stream has ended: the assistant message, or the end of the loop.
StreamEnd ==
    /\ chat.pc = "streaming"
    /\ chat.pending = <<>>
    /\ chat' = [chat EXCEPT
          !.messages = IF AppendsAssistant(chat.hasToolCalls)
                       THEN Append(@, [role |-> "assistant", parts |-> chat.assistantParts])
                       ELSE @,
          !.toolResults = <<>>,
          !.next = 1,
          !.continueLoop = IF chat.hasToolCalls THEN @ ELSE FALSE,
          !.pc = IF chat.hasToolCalls THEN "tools" ELSE "top"]
    /\ UNCHANGED <<storeVars, chunker, assembly>>

\* await vscode.lm.invokeTool(part.name, ...) for the next tool call.
ToolInvoke ==
    /\ chat.pc = "tools"
    /\ NextCall(chat.assistantParts, chat.next) # 0
    /\ LET p == NextCall(chat.assistantParts, chat.next)
       IN IF PollsInRound(chat.token)
          THEN chat' = [chat EXCEPT !.pc = "top"]
          ELSE chat' = [chat EXCEPT
                  !.pc = "invoking",
                  !.next = p,
                  !.invocations = Append(@, [event |-> "start",
                                             id |-> chat.assistantParts[p].id])]
    /\ UNCHANGED <<storeVars, chunker, assembly>>

\* The invocation returns its content, or throws and is reported.
ToolReturn ==
    /\ chat.pc = "invoking"
    /\ LET id == chat.assistantParts[chat.next].id
       IN \E ok \in BOOLEAN :
            chat' = [chat EXCEPT
               !.pc = AfterInvocation(ok),
               !.next = @ + 1,
               !.toolResults = IF ok THEN AddResult(@, [kind |-> "result", id |-> id])
                               ELSE @,
               !.sink = IF ok THEN @ ELSE Append(@, Wrote("warning", id)),
               !.invocations = Append(@, [event |-> IF ok THEN "return" ELSE "fail",
                                          id |-> id])]
    /\ UNCHANGED <<storeVars, chunker, assembly>>

\* After the last tool call: the results message, or the end of the loop.
ToolsEnd ==
    /\ chat.pc = "tools"
    /\ NextCall(chat.assistantParts, chat.next) = 0
    /\ chat' = [chat EXCEPT
          !.pc = "top",
          !.messages = IF FeedsBack(chat.toolResults)
                       THEN Append(@, [role |-> "results", parts |-> chat.toolResults])
                       ELSE @,
          !.continueLoop = IF FeedsBack(chat.toolResults) THEN @ ELSE FALSE]
    /\ UNCHANGED <<storeVars, chunker, assembly>>

\* What the catch of handleRequest does with an error of the model interface.
Caught(r, err) ==
    [r EXCEPT !.pc = AfterModelError(err),
              !.outcome = "Error",
              !.sink = Append(@, Wrote("error", <<>>)),
              !.atError = [requests |-> r.requests, invocations |-> Len(r.invocations)]]

\* model.sendRequest rejects.
RequestFails ==
    /\ chat.pc = "top"
    /\ LoopContinues(chat.continueLoop, chat.token)
    /\ chat.requests < MaxRounds
    /\ chat' = Caught([chat EXCEPT !.requests = @ + 1,
                                    !.sent = Append(@, SentMessages(chat.messages)),
                                    !.emitted = Append(@, <<>>)],
                      "LanguageModelError")
    /\ UNCHANGED <<storeVars, chunker, assembly>>

\* chatResponse.stream throws before it has yielded all its parts.
StreamFails ==
    /\ chat.pc = "streaming"
    /\ chat.pending # <<>>
    /\ chat' = Caught(chat, "LanguageModelError")
    /\ UNCHANGED <<storeVars, chunker, assembly>>

\* After the loop: the list of sources, then the return.
Sources ==
    /\ chat.pc = "sources"
    /\ chat' = [chat EXCEPT
          !.pc = "returned",
          !.sink = IF chat.relevantDocs > 0 \/ chat.userProvidedFiles > 0
                   THEN @ \o <<Wrote("sources", <<>>)>>
                          \o [i \in 1..(chat.userProvidedFiles + chat.relevantDocs) |->
                                Wrote("source", <<i>>)]
                   ELSE @]
    /\ UNCHANGED <<storeVars, chunker, assembly>>

\* ------------------------------------ handleRequest: assembling the prompt
\* A text is a sequence of characters; the characters that matter are the
\* blank, the slash, the characters of [a-zA-Z0-9\-_] and any other one.
NameChars == {"r", "f", "t"}

RECURSIVE TrimStart(_)
TrimStart(text) ==
    IF text # <<>> /\ Head(text) = " " THEN TrimStart(Tail(text)) ELSE text

RECURSIVE TrimEnd(_)
TrimEnd(text) ==
    IF text # <<>> /\ text[Len(text)] = " "
    THEN TrimEnd(SubSeq(text, 1, Len(text) - 1))
    ELSE text

\* String.prototype.trim
Trim(text) == TrimEnd(TrimStart(text))

RECURSIVE NameRun(_)
\* The longest prefix matching [a-zA-Z0-9\-_]*.
NameRun(text) ==
    IF text # <<>> /\ Head(text) \in NameChars
    THEN <<Head(text)>> \o NameRun(Tail(text))
    ELSE <<>>

\* text.match(/^\/([a-zA-Z0-9\-_]+)/): the captured group, <<>> when no match.
SlashToken(text) ==
    IF text # <<>> /\ Head(text) = "/" THEN NameRun(Tail(text)) ELSE <<>>

\* Mutant: the prompt is matched as typed.
TrimmedPrompt_raw(prompt) == prompt

\* request.prompt.trim(), message.prompt.trim()
TrimmedPrompt(prompt) == Trim(prompt)

\* The turns of context.history.
ChatRequestTurn(command, prompt) ==
    [role |-> "user", command |-> command, prompt |-> prompt, length |-> 0]

\* A response turn; length is that of its markdown parts put together.
ChatResponseTurn(length) ==
    [role |-> "assistant", command |-> <<>>, prompt |-> <<>>, length |-> length]

\* Mutant: only the turns the payload renders are scanned.
ScannedHistory_recent(history) == Slice(history, -HistoryWindow, Len(history))

\* for (let i = context.history.length - 1; i >= 0; i--): the whole history.
ScannedHistory(history) == history

RECURSIVE ScanHistory(_, _)
\* The loop over the history from position i down to the first turn.
ScanHistory(history, i) ==
    IF i < 1 THEN <<>>
    ELSE LET message == history[i] IN
         IF message.role = "user" /\ message.command # <<>>
         THEN message.command
         ELSE IF message.role = "user"
                 /\ SlashToken(TrimmedPrompt(message.prompt)) # <<>>
         THEN SlashToken(TrimmedPrompt(message.prompt))
         ELSE ScanHistory(history, i - 1)

\* let activeCommand = request.command; ... the two fallbacks.
activeCommand(command, prompt, history) ==
    LET own == IF command = <<>> /\ StartsWith(TrimmedPrompt(prompt), <<"/">>)
               THEN SlashToken(TrimmedPrompt(prompt))
               ELSE command
    IN IF own = <<>> /\ Len(history) > 0
       THEN ScanHistory(ScannedHistory(history), Len(ScannedHistory(history)))
       ELSE own

\* One section of augmentedPrompt and one entry of a section.
Section(name, body) == [name |-> name, body |-> body]
Entry(kind, ref, shown, ellipsis) ==
    [kind |-> kind, ref |-> ref, shown |-> shown, ellipsis |-> ellipsis]

\* Mutant: a placeholder stands in the payload for the missing prompt.
WhenPromptMissing_placeholder(cmd) ==
    <<Section("customPrompt", <<Entry("warning", cmd, 0, FALSE)>>)>>

\* promptFiles.length === 0: nothing is added to augmentedPrompt.
WhenPromptMissing(cmd) == <<>>

\* The custom prompt of the active command.
CustomPromptSection(cmd, load) ==
    IF cmd = <<>> THEN <<>>
    ELSE IF load = "found"
    THEN <<Section("customPrompt", <<Entry("prompt", cmd, 0, FALSE)>>)>>
    ELSE IF load = "missing" THEN WhenPromptMissing(cmd)
    ELSE <<>>

\* What the user is shown about the custom prompt.
CustomPromptWarnings(cmd, load) ==
    IF cmd = <<>> \/ load = "found" THEN <<>>
    ELSE IF load = "missing" THEN <<Entry("notFound", cmd, 0, FALSE)>>
    ELSE <<Entry("loadError", cmd, 0, FALSE)>>

\* Mutant: the catalog header is written whatever the catalog holds.
ToolsSection_always(tools) ==
    <<Section("tools", [i \in 1..tools |-> Entry("tool", <<i>>, 0, FALSE)])>>

\* if (vscode.lm.tools.length > 0)
ToolsSection(tools) ==
    IF tools > 0
    THEN <<Section("tools", [i \in 1..tools |-> Entry("tool", <<i>>, 0, FALSE)])>>
    ELSE <<>>

\* Mutant: the whole history is rendered.
recentHistory_all(history) == [i \in 1..Len(history) |-> i]

\* context.history.slice(-6), as positions of the history.
recentHistory(history) ==
    Slice([i \in 1..Len(history) |-> i], -HistoryWindow, Len(history))

\* responseText.length > 500 ? responseText.substring(0, 500) + '...' : responseText
truncated(i, length) ==
    Entry("assistant", <<i>>, Min(length, TruncateAt), length > TruncateAt)

\* const cmdPrefix = message.command ? `/${message.command} ` : ''
cmdPrefix(message) ==
    IF message.command # <<>> THEN <<"/">> \o message.command \o <<" ">> ELSE <<>>

\* What one turn of the recent history adds to the payload.
RenderTurn(history, i) ==
    LET message == history[i] IN
    IF message.role = "user"
    THEN <<Entry("user", <<i>>, Len(cmdPrefix(message) \o message.prompt), FALSE)>>
    ELSE IF message.length > 0 THEN <<truncated(i, message.length)>>
    ELSE <<>>

RECURSIVE RenderTurns(_, _)
RenderTurns(history, positions) ==
    IF positions = <<>> THEN <<>>
    ELSE RenderTurn(history, Head(positions)) \o RenderTurns(history, Tail(positions))

\* if (context.history.length > 0)
HistorySection(history) ==
    IF Len(history) > 0
    THEN <<Section("history", RenderTurns(history, recentHistory(history)))>>
    ELSE <<>>

\* if (userProvidedFiles.length > 0)
FilesSection(files) ==
    IF files > 0
    THEN <<Section("files", [i \in 1..files |-> Entry("file", <<i>>, 0, FALSE)])>>
    ELSE <<>>

\* if (relevantDocs.length > 0)
ContextSection(docs) ==
    IF docs > 0
    THEN <<Section("context", [i \in 1..docs |-> Entry("doc", <<i>>, 0, FALSE)])>>
    ELSE <<>>

\* The text handed to the model as the one user message.
augmentedPrompt(in, cmd) ==
    <<Section("base", <<>>)>>
    \o CustomPromptSection(cmd, in.load)
    \o ToolsSection(in.tools)
    \o HistorySection(in.history)
    \o FilesSection(in.files)
    \o ContextSection(in.docs)
    \o <<Section("question", <<Entry("prompt", in.prompt, Len(in.prompt), FALSE)>>)>>
    \o <<Section("directives", <<>>)>>

NoAssembly ==
    [pc |-> "idle", in |-> <<>>, activeCommand |-> <<>>, payload |-> <<>>,
     sink |-> <<>>]

\* The requests and histories the assembly is run on.
PlainText   == <<"t">>
SlashText   == <<"/", "r", " ", "t">>
SpacedSlash == <<" ", "/", "r">>
BareSlash   == <<"/", "!">>

CommandTurns ==
    {ChatRequestTurn(<<>>, PlainText), ChatRequestTurn(<<"f">>, PlainText),
     ChatRequestTurn(<<>>, SlashText), ChatResponseTurn(TruncateAt)}

RenderedTurns ==
    {ChatRequestTurn(<<"f">>, PlainText), ChatResponseTurn(0),
     ChatResponseTurn(TruncateAt), ChatResponseTurn(TruncateAt + 1)}

AllTurns ==
    CommandTurns \cup RenderedTurns
    \cup {ChatRequestTurn(<<>>, SpacedSlash), ChatRequestTurn(<<>>, BareSlash)}

AssemblyInput(command, prompt, history, load, tools, files, docs) ==
    [command |-> command, prompt |-> prompt, history |-> history,
     load |-> load, tools |-> tools, files |-> files, docs |-> docs]

\* Lines 94-258 of handleRequest on one input.
Assembled(in) ==
    LET cmd == activeCommand(in.command, in.prompt, in.history) IN
    [pc |-> "assembled", in |-> in, activeCommand |-> cmd,
     payload |-> augmentedPrompt(in, cmd),
     sink |-> CustomPromptWarnings(cmd, in.load)]

\* handleRequest from the base instruction to the message for the model, on
\* long conversations over the turns that can carry a command, on long
\* conversations over the turns as they are rendered, and on every
\* combination of the optional sections after a short conversation.
assemblePrompt ==
    /\ assembly.pc = "idle"
    /\ \/ \E p \in {PlainText, BareSlash, SlashText}, k \in 0..MaxHistory :
            \E h \in [1..k -> CommandTurns] :
              assembly' = Assembled(AssemblyInput(<<>>, p, h, "found", 0, 0, 0))
       \/ \E k \in 0..MaxHistory : \E h \in [1..k -> RenderedTurns] :
              assembly' = Assembled(AssemblyInput(<<>>, PlainText, h, "found", 0, 0, 0))
       \/ \E c \in {<<>>, <<"f">>},
             p \in {PlainText, SlashText, SpacedSlash, BareSlash},
             l \in {"found", "missing", "error"},
             tools \in 0..1, files \in 0..1, docs \in 0..1, k \in 0..MaxShort :
            \E h \in [1..k -> AllTurns] :
              assembly' = Assembled(AssemblyInput(c, p, h, l, tools, files, docs))
    /\ UNCHANGED <<storeVars, chunker, chat>>

\* ------------------------------------------------------------ specifications
Init ==
    /\ activated = FALSE
    /\ index = FALSE
    /\ embedder = FALSE
    /\ store = NewStore
    /\ indexedFolders = {}
    /\ foldersFile = [exists |-> FALSE, folders |-> {}]
    /\ task = [t \in Tasks |-> Idle]
    /\ cleared = FALSE
    /\ sinceClear = {}
    /\ chunker = NoChunkerCall
    /\ chat = NoRequest
    /\ assembly = NoAssembly

Step(t) ==
    \/ Cancel(t)
    \/ IngestBegin(t)
    \/ IngestFile(t)
    \/ IngestEnd(t)
    \/ IngestRegistry(t)
    \/ RebuildBegin(t)
    \/ RemoveList(t)
    \/ RebuildDelete(t)
    \/ RebuildCreate(t)
    \/ RemoveInsert(t)
    \/ RebuildEnd(t)
    \/ RebuildRegistry(t)
    \/ SearchQuery(t)

Call(t, concurrent) ==
    \/ indexWorkspace(t, concurrent)
    \/ indexFiles(t, concurrent)
    \/ indexGitHubRepo(t, concurrent)
    \/ removeRepoFromIndex(t, concurrent)
    \/ removeFolderFromIndex(t, concurrent)
    \/ clearIndex(t, concurrent)
    \/ search(t, concurrent)

\* The operations run one after the other, as the single-writer discipline has it.
Next == initialize \/ \E t \in Tasks : Step(t) \/ Call(t, FALSE)

Spec == Init /\ [][Next]_vars

\* Commands and chat requests arrive while an operation is at an await.
NextConcurrent == initialize \/ \E t \in Tasks : Step(t) \/ Call(t, TRUE)

SpecConcurrent == Init /\ [][NextConcurrent]_vars

\* The operations run one after the other, on a file system and an embedder
\* that may fail.
NextFaulty ==
    \/ initialize
    \/ \E t \in Tasks :
          \/ Step(t)
          \/ Call(t, FALSE)
          \/ IngestFileFails(t)
          \/ DiscoveryFails(t)
          \/ StoreCallFails(t)

SpecFaulty == Init /\ [][NextFaulty]_vars

\* The operations that change the registry, overlapping, with
\* saveIndexedFolders followed from one await to the next.
NextSave ==
    \/ initialize
    \/ \E t \in Tasks :
          \/ indexWorkspace(t, TRUE)
          \/ indexFiles(t, TRUE)
          \/ removeFolderFromIndex(t, TRUE)
          \/ clearIndex(t, TRUE)
          \/ Cancel(t)
          \/ IngestBegin(t)
          \/ IngestFile(t)
          \/ IngestEnd(t)
          \/ RebuildBegin(t)
          \/ RemoveList(t)
          \/ RebuildDelete(t)
          \/ RebuildCreate(t)
          \/ RemoveInsert(t)
          \/ RebuildEnd(t)
          \/ RegistryChange(t)
          \/ SaveSnapshot(t)
          \/ SaveWrite(t)

SpecSave == Init /\ [][NextSave]_vars

\* chunkDocument called with any text, chunkSize and overlap.
NextChunker == chunkDocumentCall \/ ChunkLoop \/ ChunkReturn

SpecChunker == Init /\ [][NextChunker]_vars

\* One chat request against the activated extension.
NextChat ==
    \/ initialize
    \/ handleRequest
    \/ CancelRequest
    \/ LoopTop
    \/ RequestFails
    \/ StreamPart
    \/ StreamFails
    \/ StreamEnd
    \/ ToolInvoke
    \/ ToolReturn
    \/ ToolsEnd
    \/ Sources

SpecChat == Init /\ [][NextChat]_vars

\* The prompt of one chat request, assembled from any request and history.
NextPrompt == assemblePrompt

SpecPrompt == Init /\ [][NextPrompt]_vars

\* ------------------------------------------------------------------- claims
Range(s) == {s[i] : i \in 1..Len(s)}

\* The multiset of the elements of a sequence.
Bag(s) == [x \in Range(s) |-> Cardinality({i \in 1..Len(s) : s[i] = x})]

\* The (vector, metadata) pairs of items, ids dropped.
Pairs(items) ==
    [i \in 1..Len(items) |-> [vector |-> items[i].vector, metadata |-> items[i].metadata]]

IsPrefix(s, u) == Len(s) <= Len(u) /\ SubSeq(u, 1, Len(s)) = s

Quiescent == \A t \in Tasks : Free(t)

Completed(t, ops) == task[t].op \in ops /\ task[t].pc = "done" /\ task[t].calls # <<>>

\* C1: once a removal has completed, the multiset of (vector, metadata) pairs in the
\* index is the multiset the index held before, less exactly the items the removal
\* predicate selects: nothing retained is lost, duplicated or altered.
C1_RemovalIsPureFilter ==
    \A t \in Tasks :
       Completed(t, RemoveOps) =>
          /\ Bag(Pairs(store.data)) = Bag(Pairs(ItemsToKeep(task[t], task[t].pre)))
          /\ Bag(Pairs(store.disk)) = Bag(Pairs(ItemsToKeep(task[t], task[t].pre)))

UniqueIds(items) == \A i, j \in 1..Len(items) : items[i].id = items[j].id => i = j

\* C2: a rebuild re-inserts the kept items without their ids and the store gives
\* each a new one, so no two items of the index ever share an id and no insertItem
\* fails with a duplicate id, whatever removals, clears and ingestions came before.
C2_NoIdCollision ==
    /\ UniqueIds(store.update)
    /\ UniqueIds(store.data)
    /\ UniqueIds(store.disk)
    /\ \A t \in Tasks : task[t].err # "Item with id already exists"
    /\ \A t \in Tasks :
          Completed(t, RemoveOps) =>
             \A i \in (Len(task[t].pre) + 1)..Len(store.data) :
                store.data[i].id \notin ItemIds(task[t].pre)

\* C2 witness: a removal has re-inserted at least one kept item.
C2_Witness ==
    \E t \in Tasks :
       /\ Completed(t, RemoveOps)
       /\ ItemsToKeep(task[t], task[t].pre) # <<>>
       /\ Len(store.data) > Len(task[t].pre)

Positions(calls, name) == {i \in 1..Len(calls) : calls[i] = name}

Before(calls, a, b) == \A i \in Positions(calls, a), j \in Positions(calls, b) : i < j

\* C3: a removal calls the store in the order listItems, deleteIndex, createIndex,
\* insertItem...: the listing is taken (and filtered) before the index is destroyed,
\* the index is recreated before the first re-insert, and nothing is deleted by id.
C3_RebuildOrder ==
    \A t \in Tasks :
       task[t].op \in RemoveOps =>
          LET calls == task[t].calls
          IN /\ Range(calls) \subseteq
                   {"beginUpdate", "listItems", "deleteIndex", "createIndex",
                    "insertItem", "endUpdate"}
             /\ \A name \in {"beginUpdate", "listItems", "deleteIndex", "createIndex",
                             "endUpdate"} : Cardinality(Positions(calls, name)) <= 1
             /\ Before(calls, "listItems", "deleteIndex")
             /\ Before(calls, "deleteIndex", "createIndex")
             /\ Before(calls, "createIndex", "insertItem")
             /\ Before(calls, "insertItem", "endUpdate")
             /\ Positions(calls, "deleteIndex") # {} => Positions(calls, "listItems") # {}
             /\ Positions(calls, "createIndex") # {} => Positions(calls, "deleteIndex") # {}
             /\ Positions(calls, "insertItem") # {} => Positions(calls, "createIndex") # {}
             /\ task[t].pc = "done" /\ calls # <<>> =>
                   Cardinality(Positions(calls, "insertItem"))
                      = Len(ItemsToKeep(task[t], task[t].pre))

\* C3 witness: a completed removal that listed, destroyed, recreated and re-inserted.
C3_Witness ==
    \E t \in Tasks :
       /\ Completed(t, RemoveOps)
       /\ Cardinality(Positions(task[t].calls, "insertItem")) >= 1
       /\ Len(ItemsToKeep(task[t], task[t].pre)) < Len(task[t].pre)

\* C4: after clearIndex has completed on an initialized store the index exists, it
\* holds no item, and the registry is empty in memory and in its file.
C4_ClearLeavesEmptyIndex ==
    \A t \in Tasks :
       Completed(t, {"clearIndex"}) =>
          /\ index /\ isIndexCreated(store)
          /\ store.data = <<>>
          /\ store.disk = <<>>
          /\ indexedFolders = {}
          /\ foldersFile.exists /\ foldersFile.folders = {}

\* C5: a search returns at most topK results in non-increasing order of score, each
\* with the text and metadata of an indexed item as stored and the score the store
\* computed for it.
C5_SearchResults ==
    \A t \in Tasks :
       task[t].op = "search" /\ task[t].pc = "done" =>
          LET results == task[t].results
              vector  == createEmbedding(task[t].query)
          IN /\ Len(results) <= task[t].topK
             /\ \A i, j \in 1..Len(results) : i < j => results[i].score >= results[j].score
             /\ \A i \in 1..Len(results) :
                   \E k \in 1..Len(task[t].pre) :
                      LET item == task[t].pre[k]
                      IN /\ results[i].metadata = item.metadata
                         /\ results[i].text = item.metadata.text
                         /\ results[i].score = Similarity(vector, item.vector)

\* C5 witness: a search cut to topK results of decreasing score.
C5_Witness ==
    \E t \in Tasks :
       /\ Completed(t, {"search"})
       /\ Len(task[t].pre) > task[t].topK
       /\ Len(task[t].results) = task[t].topK
       /\ task[t].topK > 1
       /\ task[t].results[1].score > task[t].results[2].score

\* C6: a search on an absent or empty index returns the empty sequence and raises
\* no error.
C6_SearchOnAbsentIndex ==
    \A t \in Tasks :
       task[t].op = "search" =>
          /\ task[t].err # "Index does not exist"
          /\ task[t].pc = "done" /\ task[t].pre = <<>> => task[t].results = <<>>

RECURSIVE ExpectedMetadata(_, _)
\* The metadata of the chunks of the files, in the order an ingestion inserts them.
ExpectedMetadata(r, files) ==
    IF files = <<>> THEN <<>>
    ELSE LET chunks == chunkDocument(TextOf(Head(files)), ChunkSize, ChunkOverlap)
         IN [i \in 1..Len(chunks) |-> Metadata(r.op, r.repoKey, Head(files), chunks[i])]
            \o ExpectedMetadata(r, Tail(files))

Metadatas(items) == [i \in 1..Len(items) |-> items[i].metadata]

\* C7: an ingestion that is not cancelled appends one item per chunk of its files
\* whatever the index already holds and leaves the earlier items as they were; so
\* ingesting a file set a second time doubles the item count of the first.
C7_NoDeduplication ==
    \A t \in Tasks :
       Completed(t, IngestOps) /\ ~task[t].token =>
          LET pre      == task[t].pre
              expected == ExpectedMetadata(task[t], FilesOf(task[t]))
          IN /\ IsPrefix(pre, store.data)
             /\ Metadatas(SubSeq(store.data, Len(pre) + 1, Len(store.data))) = expected
             /\ Metadatas(pre) = expected => Len(store.data) = 2 * Len(pre)

\* C7 witness: the second ingestion of a file set, on the index the first one left.
C7_Witness ==
    \E t \in Tasks :
       /\ Completed(t, IngestOps) /\ ~task[t].token
       /\ task[t].pre # <<>>
       /\ Metadatas(task[t].pre) = ExpectedMetadata(task[t], FilesOf(task[t]))
       /\ Len(store.data) = 2 * Len(task[t].pre)

RepoLabels == {<<k>> : k \in RepoKeys}

C9_OneSessionPerIngestion ==
    \A t \in Tasks :
       task[t].op \in IngestOps /\ task[t].pc # "failed" =>
          LET calls == task[t].calls
          IN /\ calls # <<>> => calls[1] = "beginUpdate"
             /\ Cardinality(Positions(calls, "beginUpdate")) <= 1
             /\ Cardinality(Positions(calls, "endUpdate")) <= 1
             /\ \A i \in 2..Len(calls) :
                   calls[i] = "insertItem" \/ (calls[i] = "endUpdate" /\ i = Len(calls))
             /\ task[t].pc \in {"loop", "endUpdate"} =>
                   store.updating /\ Positions(calls, "endUpdate") = {}
             /\ task[t].pc \in {"registry", "done"} =>
                   ~store.updating /\ Positions(calls, "endUpdate") # {}

\* C9 witness: a completed ingestion that made several inserts in its update.
C9_Witness ==
    \E t \in Tasks :
       /\ Completed(t, IngestOps)
       /\ Cardinality(Positions(task[t].calls, "insertItem")) >= 2

\* C10: once cancellation is signalled an ingestion starts no further file, it still
\* ends its update, and the items it had inserted by then are in the committed index.
C10_CancelledIngestion ==
    \A t \in Tasks :
       task[t].op \in IngestOps /\ task[t].token /\ task[t].pc # "failed" =>
          /\ task[t].started = task[t].startedAtCancel
          /\ task[t].pc \in {"registry", "done"} =>
                /\ task[t].calls[Len(task[t].calls)] = "endUpdate"
                /\ ~store.updating
                /\ IsPrefix(task[t].atCancel, store.disk)
                /\ IsPrefix(task[t].pre, store.disk)

\* C10 witness: an ingestion cancelled after its first file, files left unprocessed.
C10_Witness ==
    \E t \in Tasks :
       /\ Completed(t, IngestOps) /\ task[t].token
       /\ task[t].startedAtCancel >= 1
       /\ task[t].todo # <<>>
       /\ Len(task[t].atCancel) > Len(task[t].pre)

\* The window of chunkSize lines that starts at line startLine (1-based).
WindowAt(lines, startLine, chunkSize) ==
    SubSeq(lines, startLine, Min(startLine + chunkSize - 1, Len(lines)))

ChunkerReturned ==
    chunker.pc = "returned" /\ chunker.overlap < chunker.chunkSize

ChunkTexts ==
    \A k \in 1..Len(chunker.chunks) :
        chunker.chunks[k].text =
            WindowAt(chunker.lines, chunker.chunks[k].startLine, chunker.chunkSize)

\* C13 (as stated): with overlap < windowSize the chunks chunkDocument returns
\* start at line 1, each next one starts exactly windowSize - overlap lines
\* further, and each chunk's text is the lines startLine .. startLine +
\* windowSize - 1 of the text (fewer at the end).
C13_ChunkStartLines ==
    ChunkerReturned =>
        /\ chunker.chunks # <<>> => chunker.chunks[1].startLine = 1
        /\ \A k \in 1..(Len(chunker.chunks) - 1) :
              chunker.chunks[k + 1].startLine =
                  chunker.chunks[k].startLine + (chunker.chunkSize - chunker.overlap)
        /\ ChunkTexts

\* The 0-based numbers of the windows whose text is not blank.
FilledWindows ==
    LET step == chunker.chunkSize - chunker.overlap
    IN {k \in 0..(Len(chunker.lines) - 1) :
          /\ k * step < Len(chunker.lines)
          /\ NotBlank(WindowAt(chunker.lines, k * step + 1, chunker.chunkSize))}

\* C13 (amended): with overlap < windowSize the chunks chunkDocument returns are,
\* in order, exactly the windows starting at lines 1, 1 + (windowSize - overlap),
\* 1 + 2 (windowSize - overlap), ... whose text is not blank: the startLine values
\* increase strictly, each is 1 plus a multiple of windowSize - overlap, and each
\* chunk's text is the lines startLine .. startLine + windowSize - 1 of the text
\* (fewer at the end).
C13_ChunkWindows ==
    ChunkerReturned =>
        LET step == chunker.chunkSize - chunker.overlap
        IN /\ Len(chunker.chunks) = Cardinality(FilledWindows)
           /\ \A j \in 1..Len(chunker.chunks) :
                 \E k \in FilledWindows : chunker.chunks[j].startLine = k * step + 1
           /\ \A j \in 1..(Len(chunker.chunks) - 1) :
                 chunker.chunks[j].startLine < chunker.chunks[j + 1].startLine
           /\ ChunkTexts

\* Overlapping windows, two chunks at least, and a blank window between them dropped.
C13_Witness ==
    /\ ChunkerReturned
    /\ chunker.overlap > 0
    /\ Len(chunker.chunks) >= 2
    /\ \E j \in 1..(Len(chunker.chunks) - 1) :
          chunker.chunks[j + 1].startLine >
              chunker.chunks[j].startLine + (chunker.chunkSize - chunker.overlap)

\* C14: a chunkDocument call with overlap >= windowSize ends at once with an
\* error and yields no chunk: it never runs its loop.
C14_OverlapRejected ==
    (chunker.pc # "idle" /\ chunker.overlap >= chunker.chunkSize) =>
        (chunker.pc = "failed" /\ chunker.chunks = <<>>)

\* The invocation has opened an update with beginUpdate and has not ended it.
Opened(t) ==
    /\ task[t].op \in MutationOps
    /\ "beginUpdate" \in Range(task[t].calls)
    /\ "endUpdate" \notin Range(task[t].calls)

\* The invocation has just inserted into the index, destroyed it or recreated it.
Mutates(t) ==
    /\ task'[t].op \in MutationOps
    /\ Len(task'[t].calls) > Len(task[t].calls)
    /\ task'[t].calls[Len(task'[t].calls)] \in {"insertItem", "deleteIndex", "createIndex"}

\* C11: however the mutation entry points interleave, at most one of them has an
\* update open at any time, and none inserts into, destroys or recreates the
\* index while another one has its update open.
C11_SingleMutationSession ==
    /\ [](Cardinality({t \in Tasks : Opened(t)}) <= 1)
    /\ [][\A t \in Tasks : Mutates(t) => \A u \in Tasks \ {t} : ~Opened(u)]_vars

\* Two mutations overlap: one has inserted inside its update, the other one was
\* refused at its beginUpdate.
C11_Witness ==
    \E t, u \in Tasks :
        /\ Opened(t)
        /\ "insertItem" \in Range(task[t].calls)
        /\ task[u].op \in MutationOps
        /\ task[u].pc = "failed"
        /\ task[u].err = "Update already in progress"

\* C12: a search does not reach queryItems while a mutation has its update open.
C12_NoSearchDuringSession ==
    [][\A t \in Tasks :
          (task[t].op = "search" /\ task[t].pc = "queryItems" /\ task'[t].pc # "queryItems")
              => \A u \in Tasks : ~Opened(u)]_vars

\* ------------------------------------------------ claims on the tool loop
IsCall(part) == part.kind = "call"

IsText(part) == part.kind = "text"

HasCall(parts) == \E p \in 1..Len(parts) : IsCall(parts[p])

CallsOf(parts) == SelectSeq(parts, IsCall)

Ids(parts) == [p \in 1..Len(parts) |-> parts[p].id]

\* The invokeTool calls of round r that started, and those that returned a result.
RoundStarts(r) ==
    LET Started(e) == e.event = "start" /\ e.id[1] = r
    IN Ids(SelectSeq(chat.invocations, Started))

RoundReturns(r) ==
    LET Returned(e) == e.event = "return" /\ e.id[1] = r
    IN Ids(SelectSeq(chat.invocations, Returned))

LoopEnded == chat.pc \in {"sources", "returned"} /\ chat.outcome \in {"Done", "Cancelled"}

\* A first round with tool calls that all succeeded, a second round of text only.
C15_Case ==
    /\ LoopEnded
    /\ Len(chat.emitted) = 2
    /\ HasCall(chat.emitted[1])
    /\ chat.emitted[2] # <<>>
    /\ ~HasCall(chat.emitted[2])
    /\ \A i \in 1..Len(chat.invocations) : chat.invocations[i].event # "fail"

\* C15: when the model emits tool calls in its first round, all of them succeed,
\* and it emits only text in its second round, the loop sends two requests,
\* invokes each emitted tool call once, appends one assistant message and one
\* tool-result message, and ends Done with the text of the second round as the
\* last model output in the sink.
C15_TwoRounds ==
    C15_Case =>
        /\ chat.requests = 2
        /\ RoundStarts(1) = Ids(CallsOf(chat.emitted[1]))
        /\ Len(chat.invocations) = 2 * Len(CallsOf(chat.emitted[1]))
        /\ Len(chat.messages) = 3
        /\ chat.messages[2] = [role |-> "assistant", parts |-> chat.emitted[1]]
        /\ chat.messages[3].role = "results"
        /\ Ids(chat.messages[3].parts) = Ids(CallsOf(chat.emitted[1]))
        /\ chat.outcome = "Done"
        /\ LET texts == Ids(SelectSeq(chat.sink, IsText))
               first == Ids(SelectSeq(chat.emitted[1], IsText))
           IN texts = first \o Ids(chat.emitted[2])

C15_Witness ==
    /\ C15_Case
    /\ chat.pc = "returned"
    /\ Len(CallsOf(chat.emitted[1])) = 2

\* Cancellation was signalled before the first round started.
C16_Case == chat.token /\ chat.atCancel.pc = "top" /\ chat.atCancel.round = 0

\* C16: with cancellation signalled before the first round, the loop sends no
\* model request, invokes no tool and ends Cancelled.
C16_CancelledBeforeFirstRound ==
    C16_Case =>
        /\ chat.requests = 0
        /\ chat.invocations = <<>>
        /\ chat.pc \in {"top", "sources", "returned"}
        /\ chat.pc # "top" => chat.outcome = "Cancelled"

C16_Witness == C16_Case /\ chat.pc = "returned" /\ chat.outcome = "Cancelled"

\* C17: once the loop guard has observed cancellation, no model request is sent,
\* no tool is invoked and nothing more is written to the response stream.
C17_HaltsOnCancellation ==
    chat.outcome = "Cancelled" =>
        /\ chat.requests = chat.atObserve.requests
        /\ Len(chat.invocations) = chat.atObserve.invocations
        /\ Len(chat.sink) = chat.atObserve.sink

\* Cancellation was signalled inside a round.
C18_Case == chat.token /\ chat.atCancel.pc \in {"streaming", "tools", "invoking"}

\* C18: cancellation signalled inside a round does not interrupt it: unless the
\* model interface fails, the stream is consumed to its end, the assistant message is appended, every tool call of
\* the round is invoked and the results are appended; no further request is sent.
C18_CancellationBetweenRounds ==
    C18_Case =>
        LET r == chat.atCancel.round
        IN /\ chat.requests = r
           /\ (chat.pc \in {"top", "sources", "returned"} /\ chat.outcome # "Error") =>
                 /\ chat.assistantParts = chat.emitted[r]
                 /\ HasCall(chat.emitted[r]) =>
                       /\ \E m \in 1..Len(chat.messages) :
                             chat.messages[m] = [role |-> "assistant",
                                                 parts |-> chat.emitted[r]]
                       /\ RoundStarts(r) = Ids(CallsOf(chat.emitted[r]))
                       /\ RoundReturns(r) # <<>> =>
                             LET last == chat.messages[Len(chat.messages)]
                             IN last.role = "results" /\ Ids(last.parts) = RoundReturns(r)
           /\ chat.pc \in {"sources", "returned"} =>
                 chat.outcome \in {"Done", "Cancelled", "Error"}

C18_Witness ==
    /\ C18_Case
    /\ chat.atCancel.pc = "streaming"
    /\ chat.atCancel.pending > 0
    /\ HasCall(chat.emitted[chat.atCancel.round])
    /\ RoundReturns(chat.atCancel.round) # <<>>
    /\ chat.pc = "returned"
    /\ chat.outcome = "Cancelled"

\* C19: the loop has a cap on its rounds: it is never about to start one more
\* round after MaxRounds rounds, whatever the model emits and with no
\* cancellation.
C19_RoundsCapped ==
    ~(/\ chat.pc = "top"
      /\ LoopContinues(chat.continueLoop, chat.token)
      /\ chat.requests >= MaxRounds)

\* The tool calls of round r whose invocation returned a result, in emission order.
OkCalls(r) ==
    LET Returned(part) ==
            IsCall(part) /\ \E i \in 1..Len(chat.invocations) :
                               chat.invocations[i] = [event |-> "return", id |-> part.id]
    IN Ids(SelectSeq(chat.emitted[r], Returned))

\* C20: the tool calls of a round are invoked one at a time, in the order the
\* model emitted them: an invocation starts only when the one before it has
\* returned or failed, and the results are in the tool-result message in that
\* order.
C20_SequentialInvocations ==
    /\ \A i \in 1..Len(chat.invocations) :
          IF i % 2 = 1 THEN chat.invocations[i].event = "start"
          ELSE /\ chat.invocations[i].event \in {"return", "fail"}
               /\ chat.invocations[i].id = chat.invocations[i - 1].id
    /\ \A r \in 1..Len(chat.emitted) :
          IsPrefix(RoundStarts(r), Ids(CallsOf(chat.emitted[r])))
    /\ \A m \in 1..Len(chat.messages) :
          chat.messages[m].role = "results" =>
              Ids(chat.messages[m].parts) = OkCalls(chat.messages[m].parts[1].id[1])
    /\ chat.pc \in {"tools", "invoking"} => Ids(chat.toolResults) = OkCalls(chat.requests)

\* Two tool calls of one round have returned and their results were fed back.
C20_Witness ==
    /\ chat.pc = "returned"
    /\ \E m \in 1..Len(chat.messages) :
          chat.messages[m].role = "results" /\ Len(chat.messages[m].parts) = 2

\* The model texts of round r that were written to the response stream.
TextsWritten(r) ==
    LET OfRound(w) == w.kind = "text" /\ w.id[1] = r
    IN Ids(SelectSeq(chat.sink, OfRound))

\* C21: no tool is invoked while its round is streaming: an invocation of a round
\* comes after the round's stream has ended and its assistant message has been
\* appended; a text part is written to the response stream when it arrives, in
\* the order of emission.
C21_InvocationsAfterStream ==
    /\ chat.pc = "streaming" =>
          /\ RoundStarts(chat.requests) = <<>>
          /\ TextsWritten(chat.requests) = Ids(SelectSeq(chat.assistantParts, IsText))
    /\ \A r \in 1..chat.requests :
          RoundStarts(r) # <<>> =>
              /\ \E m \in 1..Len(chat.messages) :
                    chat.messages[m] = [role |-> "assistant", parts |-> chat.emitted[r]]
              /\ TextsWritten(r) = Ids(SelectSeq(chat.emitted[r], IsText))
              /\ r = chat.requests => chat.pending = <<>>

\* A tool call that followed a text part is being invoked.
C21_Witness ==
    /\ chat.pc = "invoking"
    /\ chat.assistantParts[1].kind = "text"
    /\ TextsWritten(chat.requests) # <<>>

\* The round r has run to its end without a failure of the model interface.
RoundDone(r) ==
    \/ r < chat.requests
    \/ r = chat.requests /\ chat.pc \in {"top", "sources", "returned"}
                         /\ chat.outcome # "Error"

FailedIds ==
    LET Failed(e) == e.event = "fail"
    IN Range(Ids(SelectSeq(chat.invocations, Failed)))

FedBackIds ==
    UNION {Range(Ids(chat.messages[m].parts)) :
             m \in {n \in 1..Len(chat.messages) : chat.messages[n].role = "results"}}

\* C22: a failing tool invocation does not abort the loop: a warning is written
\* for it, no result of it is fed back, the other tool calls of the round are
\* invoked all the same, and when a call of the round has succeeded the loop goes
\* on to the next model request (only cancellation stops it).
C22_ToolFailureIsolated ==
    /\ \A id \in FailedIds :
          /\ \E w \in 1..Len(chat.sink) : chat.sink[w] = Wrote("warning", id)
          /\ id \notin FedBackIds
          /\ id \notin Range(Ids(chat.toolResults))
    /\ \A r \in 1..chat.requests :
          RoundDone(r) =>
              /\ RoundStarts(r) = Ids(CallsOf(chat.emitted[r]))
              /\ (r = chat.requests /\ RoundReturns(r) # <<>>) =>
                    /\ chat.continueLoop
                    /\ chat.pc # "top" => chat.outcome = "Cancelled"

\* A round whose first call failed and whose second call succeeded was followed
\* by another model request.
C22_Witness ==
    \E r \in 1..(chat.requests - 1) :
        /\ Len(chat.invocations) >= 4
        /\ chat.invocations[2] = [event |-> "fail", id |-> <<r, 1>>]
        /\ chat.invocations[4] = [event |-> "return", id |-> <<r, 2>>]

RECURSIVE FullHistory(_)
\* The messages after r rounds that all fed results back.
FullHistory(r) ==
    IF r = 0 THEN <<[role |-> "user", parts |-> <<>>]>>
    ELSE FullHistory(r - 1)
         \o <<[role |-> "assistant", parts |-> chat.emitted[r]],
              [role |-> "results",
               parts |-> [i \in 1..Len(OkCalls(r)) |->
                            [kind |-> "result", id |-> OkCalls(r)[i]]]]>>

\* C23: a round ends the loop in Done exactly when its stream had no tool call or
\* none of its tool calls succeeded; in the second case no results message is
\* appended and no further request is sent; otherwise the loop is back at its
\* guard with the whole message history.
C23_LoopExit ==
    LET r == chat.requests
    IN (r >= 1 /\ RoundDone(r)) =>
          LET noCall   == ~HasCall(chat.emitted[r])
              noResult == HasCall(chat.emitted[r]) /\ RoundReturns(r) = <<>>
          IN /\ ~chat.continueLoop <=> (noCall \/ noResult)
             /\ chat.pc # "top" => (chat.outcome = "Done" <=> (noCall \/ noResult))
             /\ noResult =>
                   /\ chat.messages = FullHistory(r - 1)
                         \o <<[role |-> "assistant", parts |-> chat.emitted[r]]>>
                   /\ ~LoopContinues(chat.continueLoop, chat.token)
             /\ noCall => chat.messages = FullHistory(r - 1)
             /\ ~(noCall \/ noResult) => chat.messages = FullHistory(r)

\* A second round whose only tool call failed ended the loop in Done.
C23_Witness ==
    /\ chat.pc = "returned"
    /\ chat.outcome = "Done"
    /\ chat.requests = 2
    /\ HasCall(chat.emitted[2])
    /\ RoundReturns(2) = <<>>

\* C24: every tool result in the message sequence carries the callId of a tool
\* call of an assistant message that comes earlier in the sequence, and no
\* callId has two results.
C24_ResultsCorrelate ==
    LET results == {m \in 1..Len(chat.messages) : chat.messages[m].role = "results"}
        places  == {<<m, p>> \in results \X (1..MaxParts + 1) :
                      p <= Len(chat.messages[m].parts)}
    IN /\ \A mp \in places :
             \E a \in 1..(mp[1] - 1) :
                 /\ chat.messages[a].role = "assistant"
                 /\ \E c \in 1..Len(chat.messages[a].parts) :
                       /\ IsCall(chat.messages[a].parts[c])
                       /\ chat.messages[a].parts[c].id = chat.messages[mp[1]].parts[mp[2]].id
       /\ \A mp, nq \in places :
             chat.messages[mp[1]].parts[mp[2]].id = chat.messages[nq[1]].parts[nq[2]].id
                 => mp = nq

\* Two rounds have fed results back, one of them two results.
C24_Witness ==
    /\ Cardinality({m \in 1..Len(chat.messages) : chat.messages[m].role = "results"}) >= 2
    /\ \E m \in 1..Len(chat.messages) :
          chat.messages[m].role = "results" /\ Len(chat.messages[m].parts) = 2

ErrorsWritten ==
    Cardinality({w \in 1..Len(chat.sink) : chat.sink[w].kind = "error"})

\* C25: when the model interface fails on a request or inside a stream, or no
\* model is available, the request ends without retry: no model request and no
\* tool invocation follow the failure, and one error message is written.
C25_ModelFailureEndsLoop ==
    /\ chat.outcome = "Error" =>
          /\ chat.pc = "returned"
          /\ chat.requests = chat.atError.requests
          /\ Len(chat.invocations) = chat.atError.invocations
          /\ ErrorsWritten = 1
          /\ chat.sink[Len(chat.sink)].kind = "error"
    /\ chat.outcome = "NoModel" =>
          /\ chat.pc = "returned"
          /\ chat.requests = 0
          /\ chat.invocations = <<>>
          /\ ErrorsWritten = 1

\* The stream of a second round failed after a part of it had arrived.
C25_Witness ==
    /\ chat.outcome = "Error"
    /\ chat.requests = 2
    /\ chat.assistantParts # <<>>
    /\ chat.invocations # <<>>

\* ------------------------------------------- claims on the prompt assembly
PromptAssembled == assembly.pc = "assembled"

\* The leading /token of a text as typed, and of a text with the whitespace
\* around it removed.
TokenAsTyped(text) == SlashToken(text)
TokenAfterTrim(text) == SlashToken(Trim(text))

\* A user turn that carries an explicit command or a leading /token.
Carries(tokenOf(_), turn) ==
    /\ turn.role = "user"
    /\ turn.command # <<>> \/ tokenOf(turn.prompt) # <<>>

CommandOfTurn(tokenOf(_), turn) ==
    IF turn.command # <<>> THEN turn.command ELSE tokenOf(turn.prompt)

\* The resolution order: the explicit command, else the leading /token of the
\* request, else the most recent turn of the history that carries a command.
Resolution(tokenOf(_), in) ==
    IF in.command # <<>> THEN in.command
    ELSE IF tokenOf(in.prompt) # <<>> THEN tokenOf(in.prompt)
    ELSE LET carrying == {i \in 1..Len(in.history) : Carries(tokenOf, in.history[i])}
         IN IF carrying = {} THEN <<>>
            ELSE CommandOfTurn(tokenOf,
                     in.history[CHOOSE i \in carrying : \A j \in carrying : j <= i])

\* C26 (as amended): the active command is, by first match, the explicit
\* command of the current request; else the leading /token of the request's
\* text once the whitespace around the text is removed; else the command of
\* the most recent user turn of the history that carries an explicit command
\* or such a leading /token; with no match anywhere no command is active.
C26_CommandResolution ==
    PromptAssembled => assembly.activeCommand = Resolution(TokenAfterTrim, assembly.in)

\* No explicit command, the text "/review this" and an empty history.
C26_Witness ==
    /\ PromptAssembled
    /\ assembly.in.command = <<>>
    /\ assembly.in.prompt = SlashText
    /\ assembly.in.history = <<>>
    /\ assembly.activeCommand = <<"r">>

\* C26 (as stated): the leading /token is the one the pattern ^/[A-Za-z0-9_-]+
\* finds in the text as typed.
C26_CommandResolutionAsTyped ==
    PromptAssembled => assembly.activeCommand = Resolution(TokenAsTyped, assembly.in)

\* C27: a request that carries no command of its own resolves to the command
\* of the most recent user turn that carried one, however far back that turn
\* is, also when it is older than the six turns of the history section.
C27_CommandPersists ==
    (/\ PromptAssembled
     /\ assembly.in.command = <<>>
     /\ TokenAfterTrim(assembly.in.prompt) = <<>>)
    => \A i \in 1..Len(assembly.in.history) :
         (/\ Carries(TokenAfterTrim, assembly.in.history[i])
          /\ \A j \in (i + 1)..Len(assembly.in.history) :
                ~Carries(TokenAfterTrim, assembly.in.history[j]))
         => /\ assembly.activeCommand # <<>>
            /\ assembly.activeCommand
                 = CommandOfTurn(TokenAfterTrim, assembly.in.history[i])

\* The only turn carrying a command is the first of seven.
C27_Witness ==
    /\ PromptAssembled
    /\ assembly.in.command = <<>>
    /\ TokenAfterTrim(assembly.in.prompt) = <<>>
    /\ Len(assembly.in.history) = 7
    /\ Carries(TokenAfterTrim, assembly.in.history[1])
    /\ \A j \in 2..7 : ~Carries(TokenAfterTrim, assembly.in.history[j])
    /\ assembly.activeCommand = CommandOfTurn(TokenAfterTrim, assembly.in.history[1])

\* The names of the sections of the payload, in order.
SectionNames == [i \in 1..Len(assembly.payload) |-> assembly.payload[i].name]

\* C28: when a command resolves and its custom-prompt file does not exist, the
\* payload is the one assembled without any command (no custom-prompt section,
\* no warning text), one warning is written to the response stream, and the
\* assembly runs to its end.
C28_MissingPromptWarns ==
    (PromptAssembled /\ assembly.activeCommand # <<>> /\ assembly.in.load = "missing")
    => /\ \A i \in 1..Len(assembly.payload) :
            /\ assembly.payload[i].name # "customPrompt"
            /\ \A k \in 1..Len(assembly.payload[i].body) :
                 assembly.payload[i].body[k].kind \notin {"warning", "notFound", "loadError"}
       /\ assembly.payload = augmentedPrompt(assembly.in, <<>>)
       /\ Len(assembly.sink) = 1
       /\ assembly.sink[1].kind = "notFound"
       /\ assembly.sink[1].ref = assembly.activeCommand
       /\ SectionNames[Len(assembly.payload)] = "directives"

C28_Witness ==
    /\ PromptAssembled
    /\ assembly.activeCommand = <<"r">>
    /\ assembly.in.load = "missing"
    /\ assembly.in.tools = 1
    /\ Len(assembly.sink) = 1
    /\ SectionNames = <<"base", "tools", "question", "directives">>

SectionOrder ==
    <<"base", "customPrompt", "tools", "history", "files", "context",
      "question", "directives">>

SectionDue(name) ==
    CASE name = "customPrompt" ->
            assembly.activeCommand # <<>> /\ assembly.in.load = "found"
      [] name = "tools"   -> assembly.in.tools > 0
      [] name = "history" -> Len(assembly.in.history) > 0
      [] name = "files"   -> assembly.in.files > 0
      [] name = "context" -> assembly.in.docs > 0
      [] OTHER -> TRUE

\* C29: the sections of the payload are, in this order, the base instruction,
\* the custom command prompt, the tool catalog, the history, the user-provided
\* files, the retrieved context, the question and the directives; the first and
\* the last two are always there, each of the others exactly when its input is
\* not empty.
C29_SectionOrder ==
    PromptAssembled => SectionNames = SelectSeq(SectionOrder, SectionDue)

\* All eight sections at once, and the three fixed ones alone.
C29_Witness ==
    /\ PromptAssembled
    /\ SectionNames = SectionOrder
    /\ assembly.in.tools > 0 /\ assembly.in.files > 0 /\ assembly.in.docs > 0

\* The entries of the history section and the turns they render.
HistoryBody ==
    LET at == {i \in 1..Len(assembly.payload) : assembly.payload[i].name = "history"}
    IN IF at = {} THEN <<>> ELSE assembly.payload[CHOOSE i \in at : TRUE].body

RenderedPositions == [k \in 1..Len(HistoryBody) |-> HistoryBody[k].ref[1]]

\* The positions of the last min(n, 6) turns of a history of n turns.
LastTurns(n) ==
    LET m == IF n < 6 THEN n ELSE 6 IN [k \in 1..m |-> n - m + k]

HasText(i) ==
    \/ assembly.in.history[i].role = "user"
    \/ assembly.in.history[i].length > 0

\* An assistant turn is rendered whole up to 500 characters, and as its first
\* 500 characters followed by an ellipsis beyond.
TruncationRule ==
    \A k \in 1..Len(HistoryBody) :
        LET turn == assembly.in.history[HistoryBody[k].ref[1]] IN
        turn.role = "assistant"
        => /\ HistoryBody[k].kind = "assistant"
           /\ IF turn.length > 500
              THEN HistoryBody[k].shown = 500 /\ HistoryBody[k].ellipsis
              ELSE HistoryBody[k].shown = turn.length /\ ~HistoryBody[k].ellipsis

\* C30 (as amended): for a history of n turns the history section renders, in
\* their original order and each exactly once, those of the last min(n, 6)
\* turns that are user turns or assistant turns with some text; an assistant
\* turn without text is left out and nothing replaces it; an assistant turn
\* longer than 500 characters is rendered as its first 500 characters followed
\* by an ellipsis.
C30_HistoryWindow ==
    (PromptAssembled /\ Len(assembly.in.history) > 0)
    => /\ RenderedPositions
            = SelectSeq(LastTurns(Len(assembly.in.history)), HasText)
       /\ TruncationRule

\* Seven turns, all with text: the six most recent are rendered, one cut short.
C30_Witness ==
    /\ PromptAssembled
    /\ Len(assembly.in.history) = 7
    /\ RenderedPositions = <<2, 3, 4, 5, 6, 7>>
    /\ \E k \in 1..6 : HistoryBody[k].ellipsis /\ HistoryBody[k].shown = 500

\* C30 (as stated): the history section renders exactly the last min(n, 6)
\* turns, each once and in order.
C30_HistoryWindowExact ==
    (PromptAssembled /\ Len(assembly.in.history) > 0)
    => /\ RenderedPositions = LastTurns(Len(assembly.in.history))
       /\ TruncationRule

\* ------------------------------------- claims on the index and its registry
HasRepoKey(metadata) == "repo" \in DOMAIN metadata

RepoKeyIffExternal(items) ==
    \A i \in 1..Len(items) :
        HasRepoKey(items[i].metadata) <=> items[i].metadata.source = "github"

\* C31: in every state of the index, whatever ingestions, removals and clears
\* came before, an item's metadata has a repository key exactly when its
\* source is github, and the items a removal re-inserts carry the vector and
\* the metadata of the items it retained, unchanged and in their order.
C31_RepoKeyIffExternal ==
    /\ RepoKeyIffExternal(store.update)
    /\ RepoKeyIffExternal(store.data)
    /\ RepoKeyIffExternal(store.disk)
    /\ \A t \in Tasks :
          /\ RepoKeyIffExternal(task[t].keep)
          /\ Completed(t, RemoveOps) =>
                Pairs(SubSeq(store.data, Len(task[t].pre) + 1, Len(store.data)))
                   = Pairs(ItemsToKeep(task[t], task[t].pre))

\* A removal has retained and re-inserted a repository item and a workspace item.
C31_Witness ==
    \E t \in Tasks :
       /\ Completed(t, RemoveOps)
       /\ \E i, j \in (Len(task[t].pre) + 1)..Len(store.data) :
             /\ store.data[i].metadata.source = "github"
             /\ HasRepoKey(store.data[i].metadata)
             /\ store.data[j].metadata.source = "workspace"
             /\ ~HasRepoKey(store.data[j].metadata)

\* C34: an ingestion, a removal or a clear invoked while the embedder or the
\* index is missing fails with "Vector store not initialized", and leaves the
\* index and the registry as they were.
C34_NotInitializedSurfaced ==
    \A t \in Tasks :
       (task[t].op \in MutationOps /\ NotInitialized) =>
          /\ task[t].pc = "failed"
          /\ task[t].err = "Vector store not initialized"
          /\ store = NewStore
          /\ indexedFolders = {}
          /\ ~foldersFile.exists

\* C37: a label enters the registry only for a source that was ingested:
\* indexWorkspace adds its label only when it was not cancelled and went
\* through all its files, indexFiles adds a file's label only when every chunk
\* of that file was inserted.
C37_LabelsOnlyForIngested ==
    [][\A t \in Tasks : \A label \in indexedFolders' \ indexedFolders :
          LET r == task[t] IN
          (task'[t] # r) =>
             IF r.op = "indexWorkspace"
             THEN /\ label = FolderLabel(r.folder)
                  /\ ~r.token
                  /\ r.todo = <<>>
                  /\ r.started = Len(FilesOf(r))
             ELSE /\ r.op = "indexFiles"
                  /\ r.todo # <<>> /\ label = Head(r.todo)
                  /\ Len(store'.update) - Len(store.update)
                        = Len(chunkDocument(TextOf(label), ChunkSize, ChunkOverlap))]_vars

\* An item that was ingested under a registry label: a workspace item of the
\* whole workspace, of the file the label names, or of a file in the folder the
\* label names.
UnderLabel(metadata, label) ==
    /\ metadata.source = "workspace"
    /\ \/ label = EntireWorkspace
       \/ metadata.file = label
       \/ StartsWith(metadata.file, label \o <<"/">>)

RECURSIVE NotUnderLabel(_, _)
NotUnderLabel(items, label) ==
    IF items = <<>> THEN <<>>
    ELSE IF UnderLabel(Head(items).metadata, label)
         THEN NotUnderLabel(Tail(items), label)
         ELSE <<Head(items)>> \o NotUnderLabel(Tail(items), label)

\* C38: removeFolderFromIndex(label) retains exactly the items that were not
\* ingested under the label (repository items, and workspace items of other
\* folders and files), and once it has completed the index holds those items
\* and no other.
C38_RemovesExactlyTheLabel ==
    \A t \in Tasks :
       task[t].op = "removeFolderFromIndex" =>
          /\ task[t].pc = "deleteIndex" =>
                task[t].keep = NotUnderLabel(task[t].pre, task[t].folder)
          /\ Completed(t, {"removeFolderFromIndex"}) =>
                Bag(Pairs(store.data))
                   = Bag(Pairs(NotUnderLabel(task[t].pre, task[t].folder)))

\* C40: the messages of a request are one user message, then pairs of an
\* assistant message and a tool-result message, then at most one more assistant
\* message, that of a round still invoking its tools or of a round none of whose
\* tools gave a result; an assistant message holds the parts of a round that
\* emitted a tool call, a tool-result message the results of that round; the
\* r-th request was given the first message and the r - 1 pairs built before
\* it, which are still the first messages of the sequence.
C40_MessageShape ==
    chat.messages # <<>> =>
       LET m == chat.messages
           n == Len(m)
       IN /\ m[1] = [role |-> "user", parts |-> <<>>]
          /\ \A i \in 2..n :
                IF i % 2 = 0
                THEN /\ m[i].role = "assistant"
                     /\ i \div 2 <= chat.requests
                     /\ m[i].parts = chat.emitted[i \div 2]
                     /\ HasCall(m[i].parts)
                ELSE /\ m[i].role = "results"
                     /\ m[i].parts # <<>>
                     /\ Ids(m[i].parts) = OkCalls(i \div 2)
          /\ n % 2 = 0 =>
                /\ n \div 2 = chat.requests
                /\ \/ chat.pc \in {"tools", "invoking"}
                   \/ OkCalls(n \div 2) = <<>>
          /\ Len(chat.sent) = chat.requests
          /\ \A r \in 1..chat.requests :
                /\ Len(chat.sent[r]) = 2 * r - 1
                /\ IsPrefix(chat.sent[r], m)

\* Two rounds with tool calls: the first fed its results back, no tool of the
\* second gave a result, and the request has returned.
C40_Witness ==
    /\ chat.pc = "returned"
    /\ chat.outcome = "Done"
    /\ Len(chat.messages) = 4
    /\ chat.messages[4].role = "assistant"
    /\ chat.requests = 2
    /\ chat.sent[2] = SubSeq(chat.messages, 1, 3)

\* ----------------------------------------- claims on failures of the environment
RECURSIVE MetadataOfFiles(_, _, _)
\* The metadata of the items an ingestion inserts for its files from place `at`
\* on: every chunk of a file, or the chunks inserted before the file failed.
MetadataOfFiles(r, files, at) ==
    IF files = <<>> THEN <<>>
    ELSE LET chunks == chunkDocument(TextOf(Head(files)), ChunkSize, ChunkOverlap)
             fails  == {k \in 1..Len(r.failed) : r.failed[k].at = at}
             n      == IF fails = {} THEN Len(chunks)
                       ELSE r.failed[CHOOSE k \in fails : TRUE].inserted
         IN [i \in 1..n |-> Metadata(r.op, r.repoKey, Head(files), chunks[i])]
            \o MetadataOfFiles(r, Tail(files), at + 1)

\* C33: a file that cannot be read, chunked, embedded or inserted is skipped and
\* the ingestion goes on: the failure is never the call's own, every other file
\* of the batch is processed (unless the user cancels), the items of the other
\* files and those the index held are as they would be without the failure, and
\* the call ends its update and completes.
C33_FileFailureIsolated ==
    \A t \in Tasks :
       LET r == task[t] IN
       (r.op \in IngestOps /\ r.failed # <<>>) =>
          /\ r.err # "Failed to index file"
          /\ r.pc = "failed" => r.calls[Len(r.calls)] = "endUpdate"
          /\ r.pc \in {"loop", "endUpdate"} => store.updating
          /\ r.pc \in {"registry", "done"} =>
                /\ r.calls[Len(r.calls)] = "endUpdate"
                /\ ~store.updating
                /\ ~r.token => r.todo = <<>> /\ r.started = Len(FilesOf(r))
                /\ IsPrefix(r.pre, store.data)
                /\ Metadatas(SubSeq(store.data, Len(r.pre) + 1, Len(store.data)))
                      = MetadataOfFiles(r, SubSeq(FilesOf(r), 1, r.started), 1)

\* The first file of two failed after its first chunk was inserted; the second
\* file was ingested whole and the call completed.
C33_Witness ==
    \E t \in Tasks :
       /\ Completed(t, IngestOps) /\ ~task[t].token
       /\ task[t].failed = <<[at |-> 1, inserted |-> 1]>>
       /\ task[t].started = 2
       /\ Len(store.data) = Len(task[t].pre) + 2
       /\ store.data[Len(store.data)].metadata.file = FileA

\* C32: whenever no operation is in progress the registry file, read as
\* loadIndexedFolders reads it (absent: empty), holds exactly the labels of the
\* registry in memory, so that a restart gives the registry back.
C32_RegistryPersisted ==
    (activated /\ Quiescent) => loadIndexedFolders = indexedFolders

\* C35: once a mutation entry point has returned or thrown, the update it
\* opened is closed: no update stays open when no operation is in progress.
C35_NoSessionLeftOpen ==
    /\ Quiescent => ~store.updating
    /\ \A t \in Tasks : task[t].err # "Update already in progress"

\* C36: a removal that failed at some step has left in the index every item
\* the index held when the removal began.
C36_RemovalAllOrNothing ==
    \A t \in Tasks :
       (task[t].op \in RemoveOps /\ task[t].pc = "failed"
           /\ "beginUpdate" \in Range(task[t].calls)) =>
          \A i \in 1..Len(task[t].pre) :
             \E j \in 1..Len(store.disk) : store.disk[j] = task[t].pre[i]

\* C39: when two operations that change the registry have both completed,
\* whatever the order of their steps was, indexed-folders.json holds the
\* registry that is in memory.
C39_LastSaveWins ==
    (\A t \in Tasks : task[t].pc = "done" /\ task[t].op \in MutationOps
                         /\ task[t].calls # <<>>)
    => /\ foldersFile.exists
       /\ foldersFile.folders = indexedFolders

====
